---- MODULE Spec2Model ----
(***************************************************************************)
(* Model of the kamiyo-mcp x402Resolve client.                             *)
(*                                                                         *)
(* Two clients drive one ledger:                                           *)
(*   - the MCP tools (src/src/tools/*.ts) through X402Program              *)
(*     (src/src/solana/anchor.ts), every submission an Anchor .rpc();      *)
(*   - the browser OracleTransactionSystem                                 *)
(*     (src/public/oracle-providers/synthetic-oracle-service.js), which    *)
(*     builds transactions and hands them to sendAndConfirm.               *)
(* The ledger program itself is not part of the repository; its guards are *)
(* modelled from the specification (sections 3 and 4.8) and from the error   *)
(* names the clients parse.                                                *)
(*                                                                         *)
(* Five specifications: Spec (the escrow and dispute tools and the agent's *)
(* ledger calls), SpecBrowser (the browser client), SpecTools (every tool  *)
(* of the MCP server, with callApiWithEscrow step by step), SpecService    *)
(* (the consensus and refund functions applied to one list of scores) and  *)
(* SpecEncoding (the byte encoders applied to one transaction id and one   *)
(* amount).                                                                *)
(***************************************************************************)
EXTENDS Integers, Sequences, FiniteSets, TLC

\* ------------------------------------------------------------------ bounds
\* number of time-lock periods the ledger clock may advance
MaxTicks == 1
\* longest score list enumerated over ScoreValues
MaxScores == 3

\* ------------------------------------------------------- program constants
\* default time lock of the createEscrow tool, seconds
DefaultTimeLock == 3600

\* --------------------------------------------------------------- identities
TxIds == {"tx-1", "tx-2"}
Agent == "agent"
Provider == "api"
Other == "other"

VARIABLES
  escrows,      \* ledger: transaction id -> escrow account
  reputations,  \* ledger: entity -> reputation account
  now,          \* ledger clock, seconds
  pc,           \* position of the MCP tool call in progress
  call,         \* the MCP tool call in progress, or the last one
  ret,          \* what the last MCP tool call returned
  submitted,    \* what the call sent out: instruction kinds handed to the
                \* ledger RPC, and "apiRequest" for the request to the API
  applied,      \* instruction kinds of the call the ledger executed
  pre,          \* the accounts as the tool call read them, and which it read
  bpc,          \* position of the browser client's operation
  bcall,        \* the browser client's operation in progress, or the last one
  btx,          \* the transaction the browser client built
  bret,         \* how the browser client's last operation ended
  simulated,    \* the transaction sendAndConfirm simulated without error
  signedTx,     \* the transaction sendAndConfirm handed to the wallet
  broadcast,    \* whether that transaction was broadcast
  assessed,     \* the scores and threshold handed to SyntheticOracleService
  consensus,    \* what calculateConsensus returned for them
  wire          \* the bytes the browser client and the service encoded for
                \* one transaction id and amount

ledger == <<escrows, reputations, now>>
tool == <<pc, call, ret, submitted, applied, pre>>
browser == <<bpc, bcall, btx, bret, simulated, signedTx, broadcast>>
service == <<assessed, consensus, wire>>
vars == <<escrows, reputations, now, pc, call, ret, submitted, applied, pre,
          bpc, bcall, btx, bret, simulated, signedTx, broadcast,
          assessed, consensus, wire>>

\* ------------------------------------------------------------------ ledger
NoEscrow ==
  [status |-> "None", agent |-> "none", expiresAt |-> 0,
   qualityScore |-> -1, refundPercentage |-> -1]

\* statistics of a reputation account that getApiReputation reads
Stats(totalTransactions, reputationScore, averageQualityReceived, disputesLost) ==
  [totalTransactions |-> totalTransactions, reputationScore |-> reputationScore,
   averageQualityReceived |-> averageQualityReceived, disputesLost |-> disputesLost]
NewStats == Stats(0, 500, 0, 0)

NoReputation == [exists |-> FALSE, disputesFiled |-> 0, stats |-> NewStats]

Ix(kind, signer, tx, entity, q, r) ==
  [kind |-> kind, signer |-> signer, tx |-> tx, entity |-> entity,
   qualityScore |-> q, refundPercentage |-> r, timeLock |-> 0, data |-> <<>>]

\* The entity whose reputation account an escrow's payee side refers to.
ApiOf(tx) == Provider

\* Guards of the ledger program, one per instruction: "ok", or the name of the
\* error the program raises.
InitializeEscrowGuard(ix) ==
  IF escrows[ix.tx].status # "None" THEN "AccountInUse" ELSE "ok"

InitReputationGuard(ix) ==
  IF reputations[ix.entity].exists THEN "AccountInUse" ELSE "ok"

MarkDisputedGuard(ix) ==
  IF escrows[ix.tx].status = "None" \/ ~reputations[ix.signer].exists
    THEN "AccountNotInitialized"
  ELSE IF escrows[ix.tx].agent # ix.signer THEN "Unauthorized"
  ELSE IF escrows[ix.tx].status # "Active" THEN "EscrowNotActive"
  ELSE IF now >= escrows[ix.tx].expiresAt THEN "DisputeWindowExpired"
  ELSE "ok"

ReleaseFundsGuard_AnyStatus(ix) ==
  IF escrows[ix.tx].status = "None" THEN "AccountNotInitialized"
  ELSE IF ix.signer # escrows[ix.tx].agent /\ now < escrows[ix.tx].expiresAt
    THEN "TimeLockNotExpired"
  ELSE "ok"

ReleaseFundsGuard(ix) ==
  IF escrows[ix.tx].status = "None" THEN "AccountNotInitialized"
  ELSE IF escrows[ix.tx].status # "Active" THEN "EscrowNotActive"
  ELSE IF ix.signer # escrows[ix.tx].agent /\ now < escrows[ix.tx].expiresAt
    THEN "TimeLockNotExpired"
  ELSE "ok"

ResolveDisputeGuard(ix) ==
  IF escrows[ix.tx].status = "None"
     \/ ~reputations[escrows[ix.tx].agent].exists
     \/ ~reputations[ApiOf(ix.tx)].exists
    THEN "AccountNotInitialized"
  ELSE IF escrows[ix.tx].status # "Disputed" THEN "EscrowNotDisputed"
  ELSE "ok"

IxError(ix) ==
  CASE ix.kind = "initializeEscrow" -> InitializeEscrowGuard(ix)
    [] ix.kind = "initReputation" -> InitReputationGuard(ix)
    [] ix.kind = "markDisputed" -> MarkDisputedGuard(ix)
    [] ix.kind = "releaseFunds" -> ReleaseFundsGuard(ix)
    [] ix.kind = "resolveDispute" -> ResolveDisputeGuard(ix)
    [] OTHER -> "InvalidInstruction"

\* Effect of an accepted instruction on the escrow accounts.
ApplyEscrows(ix) ==
  CASE ix.kind = "initializeEscrow" ->
         [escrows EXCEPT ![ix.tx] =
            [status |-> "Active", agent |-> ix.signer,
             expiresAt |-> now + ix.timeLock,
             qualityScore |-> -1, refundPercentage |-> -1]]
    [] ix.kind = "markDisputed" ->
         [escrows EXCEPT ![ix.tx].status = "Disputed"]
    [] ix.kind = "releaseFunds" ->
         [escrows EXCEPT ![ix.tx].status = "Released"]
    [] ix.kind = "resolveDispute" ->
         [escrows EXCEPT ![ix.tx].status = "Resolved",
                         ![ix.tx].qualityScore = ix.qualityScore,
                         ![ix.tx].refundPercentage = ix.refundPercentage]
    [] OTHER -> escrows

\* Effect of an accepted instruction on the reputation accounts.
ApplyReputations(ix) ==
  CASE ix.kind = "initReputation" ->
         [reputations EXCEPT ![ix.entity] =
            [exists |-> TRUE, disputesFiled |-> 0, stats |-> NewStats]]
    [] ix.kind = "markDisputed" ->
         [reputations EXCEPT ![ix.signer].disputesFiled = @ + 1]
    [] OTHER -> reputations

\* The ledger executes one instruction: all of its effect or none.
Execute(ix) ==
  IF IxError(ix) = "ok"
    THEN /\ escrows' = ApplyEscrows(ix)
         /\ reputations' = ApplyReputations(ix)
    ELSE UNCHANGED <<escrows, reputations>>

\* ------------------------------------------------------- Anchor .rpc() call
\* What one .rpc() round trip can do: "ok" the request is executed and its
\* result observed; "down" the RPC endpoint is unreachable and nothing is
\* executed; "lost" the transaction is broadcast and executed but its
\* confirmation is not observed within the validity window.
NetOutcomes == {"ok", "down", "lost"}

\* The error .rpc() throws, "ok" when it returns a signature.
RpcError(ix, net) ==
  IF net = "down" THEN "NetworkError"
  ELSE IF IxError(ix) # "ok" THEN IxError(ix)
  ELSE IF net = "lost" THEN "ConfirmationTimeout"
  ELSE "ok"

\* One .rpc() of a call that has so far submitted `sub` and had `app` executed.
Rpc(ix, net, sub, app) ==
  /\ UNCHANGED <<browser, service>>
  /\ submitted' = sub \cup {ix.kind}
  /\ IF net # "down"
       THEN /\ Execute(ix)
            /\ applied' = IF IxError(ix) = "ok" THEN app \cup {ix.kind} ELSE app
       ELSE /\ UNCHANGED <<escrows, reputations>>
            /\ applied' = app

\* An account fetch: the account as read, or "fetchFailed" when the read throws
\* (account absent, or the endpoint unreachable).
FetchEscrowThrows(tx, net) == net = "down" \/ escrows[tx].status = "None"
FetchReputationThrows(e, net) == net = "down" \/ ~reputations[e].exists

\* what an existence check observed: the account, its absence, or a throw
Seen(exists, net) ==
  IF net = "down" THEN "threw" ELSE IF exists THEN "found" ELSE "absent"

\* X402Program.escrowExists / reputationExists
escrowExists(tx, net) == ~FetchEscrowThrows(tx, net)
reputationExists(e, net) == ~FetchReputationThrows(e, net)

\* ------------------------------------------------------------ MCP tools
Pending == [done |-> FALSE, success |-> FALSE, error |-> ""]
Returned(success, error) == [done |-> TRUE, success |-> success, error |-> error]
\* the program id the server is started with; X402Program hands it to its
\* PDADeriver
ProgramId == "X402_PROGRAM_ID"
\* no address
NoAddress == [kind |-> "none", programId |-> "none", seed |-> "none", tx |-> "none"]
deriveEscrowPDA_ReputationSeed(tx) ==
  [kind |-> "pda", programId |-> ProgramId, seed |-> "reputation", tx |-> tx]

\* PDADeriver.deriveEscrowPDA: PublicKey.findProgramAddressSync over the seeds
\* 'escrow' and the bytes of the transaction id, and the deriver's program id.
\* The address and bump it returns are written as what determines them.
deriveEscrowPDA(tx) ==
  [kind |-> "pda", programId |-> ProgramId, seed |-> "escrow", tx |-> tx]
NoPre ==
  [status |-> "None", open |-> FALSE, reputation |-> "none", reads |-> {},
   address |-> NoAddress]
\* the call has derived the escrow address of a transaction id and read the
\* escrow account, and nothing else
EscrowRead(tx) == [NoPre EXCEPT !.reads = {"escrow"}, !.address = deriveEscrowPDA(tx)]
NoTransaction == [kind |-> "null", isV0 |-> FALSE, instructions |-> <<>>]
NoOutcome == [done |-> FALSE, outcome |-> "none", error |-> "", timedOut |-> FALSE]
NoConsensus == [done |-> FALSE]

\* a tool that returns the signature of its .rpc(), or the thrown message
RpcReturn(ix, net) ==
  IF RpcError(ix, net) = "ok" THEN Returned(TRUE, "") ELSE Returned(FALSE, RpcError(ix, net))

Begin(op, tx, entity) ==
  /\ pc = "idle"
  /\ call' = [op |-> op, tx |-> tx, entity |-> entity]

\* A call that returns without submitting anything to the ledger.
ReturnLocal(success, error) ==
  /\ UNCHANGED <<browser, service>>
  /\ pc' = "idle"
  /\ ret' = Returned(success, error)
  /\ submitted' = {}
  /\ applied' = {}
  /\ UNCHANGED <<escrows, reputations, now>>

\* inputs of the tools
ApiInputs == {"", "not-a-key", Provider}
\* An amount of SOL is written as whole units of 1000 lamports (one micro-SOL)
\* plus halves of a lamport within the unit (0..1999): 10^12 lamports does not
\* fit a 32-bit integer.
Sol(units, halves) == [given |-> TRUE, units |-> units, halves |-> halves]
\* params.amount is undefined
NoAmount == [given |-> FALSE, units |-> 0, halves |-> 0]
AmountInputs ==
  {NoAmount, Sol(0, 0), Sol(-5, 0), Sol(0, 1), Sol(999, 1999), Sol(1000, 0),
   Sol(1000000000, 1), Sol(1000000000, 2)}
\* params.timeLock: a number of seconds, or undefined
TimeLock(seconds) == [given |-> TRUE, seconds |-> seconds]
NoTimeLock == [given |-> FALSE, seconds |-> 0]
TimeLockInputs ==
  {NoTimeLock, TimeLock(0), TimeLock(3599), TimeLock(3600), TimeLock(2592001)}
ScoreInputs == {-1, 40, 101}
PercentInputs == {-1, 100, 101}
TxIdInputs == TxIds \cup {""}
\* createEscrow params with at most one of them off a valid call
ValidCreate == [api |-> Provider, amount |-> Sol(1000, 0), timeLock |-> NoTimeLock]
CreateEscrowInputs ==
  {[ValidCreate EXCEPT !.api = a] : a \in ApiInputs}
  \cup {[ValidCreate EXCEPT !.amount = a] : a \in AmountInputs}
  \cup {[ValidCreate EXCEPT !.timeLock = t] : t \in TimeLockInputs}

MIN_ESCROW_AMOUNT == 1000
MAX_ESCROW_AMOUNT == 1000000000
MIN_TIME_LOCK == 3600
MAX_TIME_LOCK == 2592000

\* MIN_ESCROW_AMOUNT and MAX_ESCROW_AMOUNT are counted in units of 1000 lamports.
\* Math.floor(sol * LAMPORTS_PER_SOL): the half lamport is dropped; the result
\* is units of 1000 lamports plus lamports within the unit (0..999)
solToLamports(sol) == [units |-> sol.units, lamports |-> sol.halves \div 2]

\* amountLamports < bound and amountLamports > bound, the bound in whole units
LamportsBelow(l, unitsBound) == l.units < unitsBound
LamportsAbove(l, unitsBound) ==
  l.units > unitsBound \/ (l.units = unitsBound /\ l.lamports > 0)

\* params.timeLock || 3600: undefined and 0 are both falsy
EffectiveTimeLock(timeLock) ==
  IF ~timeLock.given \/ timeLock.seconds = 0 THEN DefaultTimeLock ELSE timeLock.seconds

\* createEscrow's local validation: "ok" or the error it returns.
CreateEscrowValidation(api, amount, timeLock) ==
  IF api = "" THEN "API provider address is required"
  ELSE IF ~amount.given \/ amount.units < 0 \/ (amount.units = 0 /\ amount.halves = 0)
    THEN "Amount must be greater than 0"
  ELSE IF LamportsBelow(solToLamports(amount), MIN_ESCROW_AMOUNT) THEN "Amount too small"
  ELSE IF LamportsAbove(solToLamports(amount), MAX_ESCROW_AMOUNT) THEN "Amount too large"
  ELSE IF api # Provider THEN "Invalid public key input"
  ELSE IF EffectiveTimeLock(timeLock) < MIN_TIME_LOCK
          \/ EffectiveTimeLock(timeLock) > MAX_TIME_LOCK
    THEN "Time lock out of range"
  ELSE "ok"

\* X402Program instructions as the client builds them
initializeEscrowIx(tx, timeLock) ==
  [Ix("initializeEscrow", Agent, tx, "none", -1, -1) EXCEPT !.timeLock = timeLock]
markDisputedIx(tx) == Ix("markDisputed", Agent, tx, "none", -1, -1)
releaseFundsIx(tx) == Ix("releaseFunds", Agent, tx, "none", -1, -1)
initReputationIx(e) == Ix("initReputation", Agent, "none", e, -1, -1)
resolveDisputeIx(tx, q, r) == Ix("resolveDispute", Agent, tx, "none", q, r)

\* tools/escrow.ts createEscrow: validate, generate a transaction id, submit
\* initialize-escrow. The generated id is any id; the RPC does what it can do.
createEscrow(api, amount, timeLock) ==
  /\ pc = "idle"
  /\ IF CreateEscrowValidation(api, amount, timeLock) # "ok"
       THEN /\ call' = [op |-> "createEscrow", tx |-> "none", entity |-> "none"]
            /\ pre' = NoPre
            /\ ReturnLocal(FALSE, CreateEscrowValidation(api, amount, timeLock))
       ELSE \E tx \in TxIds, net \in NetOutcomes :
            /\ call' = [op |-> "createEscrow", tx |-> tx, entity |-> "none"]
            /\ pre' = [NoPre EXCEPT !.address = deriveEscrowPDA(tx)]
            /\ Rpc(initializeEscrowIx(tx, EffectiveTimeLock(timeLock)), net, {}, {})
            /\ ret' = RpcReturn(initializeEscrowIx(tx, EffectiveTimeLock(timeLock)), net)
            /\ pc' = "idle"
            /\ UNCHANGED now

\* X402Program.releaseFunds: fetch the escrow, submit release-funds.
releaseFunds(tx, netFetch, net) ==
  /\ Begin("releaseFunds", tx, "none")
  /\ pre' = EscrowRead(tx)
  /\ IF FetchEscrowThrows(tx, netFetch)
       THEN ReturnLocal(FALSE, "Account does not exist")
       ELSE /\ Rpc(releaseFundsIx(tx), net, {}, {})
            /\ ret' = RpcReturn(releaseFundsIx(tx), net)
            /\ pc' = "idle"
            /\ UNCHANGED now

\* X402Program.resolveDispute: fetch the escrow, submit resolve-dispute.
ResolveInputs == {[q |-> 40, r |-> 100], [q |-> 85, r |-> 0]}

resolveDispute(tx, q, r, netFetch, net) ==
  /\ Begin("resolveDispute", tx, "none")
  /\ pre' = EscrowRead(tx)
  /\ IF FetchEscrowThrows(tx, netFetch)
       THEN ReturnLocal(FALSE, "Account does not exist")
       ELSE /\ Rpc(resolveDisputeIx(tx, q, r), net, {}, {})
            /\ ret' = RpcReturn(resolveDisputeIx(tx, q, r), net)
            /\ pc' = "idle"
            /\ UNCHANGED now

\* fileDispute's catch block: the message returned for a thrown error.
FileDisputeErrorMessage(e) ==
  IF e = "DisputeWindowExpired"
    THEN "Dispute window has expired. Cannot dispute after time lock expires."
  ELSE IF e = "InsufficientDisputeFunds"
    THEN "Insufficient funds to pay dispute cost."
  ELSE IF e = "Unauthorized"
    THEN "Only the agent who created the escrow can file a dispute."
  ELSE e

\* fileDispute's local input validation: "ok" or the error it returns.
FileDisputeValidation(tx, q, r) ==
  IF tx = "" THEN "Transaction ID is required"
  ELSE IF q < 0 \/ q > 100 THEN "Quality score must be between 0 and 100"
  ELSE IF r < 0 \/ r > 100 THEN "Refund percentage must be between 0 and 100"
  ELSE "ok"

\* fileDispute's lifecycle check on the escrow it read.
FileDisputeStatusRejects(status) == status # "Active"

\* fileDispute up to its status check: validation, escrowExists,
\* getEscrowAccount, parseEscrowStatus.
fileDispute_check(tx, q, r) ==
  /\ Begin("fileDispute", tx, Agent)
  /\ IF FileDisputeValidation(tx, q, r) # "ok"
       THEN /\ ReturnLocal(FALSE, FileDisputeValidation(tx, q, r))
            /\ pre' = NoPre
       ELSE \E netExists \in {"ok", "down"}, netFetch \in {"ok", "down"} :
            IF ~escrowExists(tx, netExists)
              THEN /\ ReturnLocal(FALSE, "Escrow not found")
                   /\ pre' = EscrowRead(tx)
            ELSE IF FetchEscrowThrows(tx, netFetch)
              THEN /\ ReturnLocal(FALSE, "Account does not exist")
                   /\ pre' = EscrowRead(tx)
            ELSE IF FileDisputeStatusRejects(escrows[tx].status)
              THEN /\ ReturnLocal(FALSE, "Cannot dispute escrow in this status")
                   /\ pre' = [EscrowRead(tx) EXCEPT
                                !.status = escrows[tx].status,
                                !.open = now < escrows[tx].expiresAt]
            ELSE /\ pc' = "fd_reputationExists"
                 /\ ret' = Pending
                 /\ submitted' = {}
                 /\ applied' = {}
                 /\ pre' = [EscrowRead(tx) EXCEPT
                              !.status = escrows[tx].status,
                              !.open = now < escrows[tx].expiresAt]
                 /\ UNCHANGED <<escrows, reputations, now>>
                 /\ UNCHANGED <<browser, service>>

\* fileDispute: await program.reputationExists(agent)
fileDispute_reputationExists(net) ==
  /\ pc = "fd_reputationExists"
  /\ pc' = IF reputationExists(Agent, net) THEN "fd_markDisputed" ELSE "fd_initReputation"
  /\ pre' = [pre EXCEPT !.reputation = Seen(reputations[Agent].exists, net),
                         !.reads = @ \cup {"reputation"}]
  /\ UNCHANGED <<escrows, reputations, now, call, ret, submitted, applied>>
  /\ UNCHANGED <<browser, service>>

\* fileDispute: await program.initReputation()
fileDispute_initReputation(net) ==
  /\ pc = "fd_initReputation"
  /\ Rpc(initReputationIx(Agent), net, submitted, applied)
  /\ IF RpcError(initReputationIx(Agent), net) = "ok"
       THEN pc' = "fd_markDisputed" /\ ret' = ret
       ELSE /\ pc' = "idle"
            /\ ret' = Returned(FALSE,
                        FileDisputeErrorMessage(RpcError(initReputationIx(Agent), net)))
  /\ UNCHANGED <<now, call, pre>>

fileDispute_markDisputed_AlwaysSucceeds(net) ==
  /\ pc = "fd_markDisputed"
  /\ Rpc(markDisputedIx(call.tx), net, submitted, applied)
  /\ pc' = "idle"
  /\ ret' = Returned(TRUE, "")
  /\ UNCHANGED <<now, call, pre>>

\* fileDispute: await program.markDisputed(transactionId), then return.
fileDispute_markDisputed(net) ==
  /\ pc = "fd_markDisputed"
  /\ Rpc(markDisputedIx(call.tx), net, submitted, applied)
  /\ pc' = "idle"
  /\ ret' = IF RpcError(markDisputedIx(call.tx), net) = "ok"
              THEN Returned(TRUE, "")
              ELSE Returned(FALSE,
                     FileDisputeErrorMessage(RpcError(markDisputedIx(call.tx), net)))
  /\ UNCHANGED <<now, call, pre>>

\* tools/reputation.ts initializeReputation: existence check ...
initializeReputation_check(e, net) ==
  /\ Begin("initializeReputation", "none", e)
  /\ pre' = [NoPre EXCEPT !.reputation = Seen(reputations[e].exists, net),
                           !.reads = {"reputation"}]
  /\ IF reputationExists(e, net)
       THEN ReturnLocal(TRUE, "")
       ELSE /\ pc' = "ir_initReputation"
            /\ ret' = Pending
            /\ submitted' = {}
            /\ applied' = {}
            /\ UNCHANGED <<escrows, reputations, now>>
            /\ UNCHANGED <<browser, service>>

\* ... then await program.initReputation(entity)
initializeReputation_init(net) ==
  /\ pc = "ir_initReputation"
  /\ Rpc(initReputationIx(call.entity), net, submitted, applied)
  /\ pc' = "idle"
  /\ ret' = RpcReturn(initReputationIx(call.entity), net)
  /\ UNCHANGED <<now, call, pre>>

\* ------------------------------------------------ MCP tools: the other tools
ErrorMessage_NoFallback(message, fallback) == message

\* error.message || fallback, in the catch block of a tool
ErrorMessage(message, fallback) == IF message = "" THEN fallback ELSE message

\* how an account fetch goes: it is answered, or it throws when the RPC
\* endpoint cannot be reached, with the library's own message or with none
ReadOutcomes ==
  {[net |-> "ok", message |-> ""]}
  \cup {[net |-> "down", message |-> m] : m \in {"NetworkError", ""}}

\* what a tool returns: the success flag, the error message ("" when the
\* result carries none) and the other fields of the result
Result(success, error, value) ==
  [done |-> TRUE, success |-> success, error |-> error, value |-> value]

NoValue == [none |-> TRUE]

BeginTool(op, tx, args) ==
  /\ pc = "idle"
  /\ call' = [op |-> op, tx |-> tx, entity |-> "none", args |-> args]

\* A tool call ends having read `reads` at `address` and submitted nothing.
ToolReturns(result, reads, address) ==
  /\ pc' = "idle"
  /\ ret' = result
  /\ pre' = [NoPre EXCEPT !.reads = reads, !.address = address]
  /\ submitted' = {}
  /\ applied' = {}
  /\ UNCHANGED <<escrows, reputations, now>>
  /\ UNCHANGED <<browser, service>>

\* what checkEscrowStatus is asked about: nothing, an escrowAddress that is
\* no public key, or the address of a transaction id
AddressInputs ==
  {NoAddress, [NoAddress EXCEPT !.kind = "malformed"]}
  \cup {deriveEscrowPDA(t) : t \in TxIds}

\* tools/escrow.ts checkEscrowStatus
checkEscrowStatus(address, tx, net, message) ==
  /\ BeginTool("checkEscrowStatus", tx, [escrowAddress |-> address])
  /\ IF address.kind = "malformed"
       THEN ToolReturns(Result(FALSE, "Invalid public key input", NoValue), {}, NoAddress)
     ELSE IF address.kind = "none" /\ tx = ""
       THEN ToolReturns(Result(FALSE, "Either escrowAddress or transactionId is required",
                               NoValue), {}, NoAddress)
     ELSE LET fetched == IF address.kind = "pda" THEN address ELSE deriveEscrowPDA(tx)
              t == fetched.tx IN
          IF net = "down"
            THEN ToolReturns(Result(FALSE,
                                    ErrorMessage(message, "Failed to fetch escrow status"),
                                    NoValue), {"escrow"}, fetched)
          ELSE IF escrows[t].status = "None"
            THEN ToolReturns(Result(FALSE, "Account does not exist", NoValue),
                             {"escrow"}, fetched)
          ELSE ToolReturns(Result(TRUE, "", [status |-> escrows[t].status]),
                           {"escrow"}, fetched)

VerifiedStatus_NotReleased(status) == status # "Released"

\* verifyPayment: verified: status === 'Active'
VerifiedStatus(status) == status = "Active"

\* tools/escrow.ts verifyPayment: escrowExists, then getEscrowAccount
verifyPayment(tx, netExists, netFetch, message) ==
  /\ BeginTool("verifyPayment", tx, [exists |-> Seen(escrows[tx].status # "None", netExists),
                                     fetch |-> netFetch])
  /\ IF ~escrowExists(tx, netExists)
       THEN ToolReturns(Result(TRUE, "Escrow not found",
                               [verified |-> FALSE, status |-> "none"]),
                        {"escrow"}, deriveEscrowPDA(tx))
     ELSE IF netFetch = "down"
       THEN ToolReturns(Result(FALSE, ErrorMessage(message, "Failed to verify payment"),
                               [verified |-> FALSE, status |-> "none"]),
                        {"escrow"}, deriveEscrowPDA(tx))
     ELSE ToolReturns(Result(TRUE, "",
                             [verified |-> VerifiedStatus(escrows[tx].status),
                              status |-> escrows[tx].status,
                              escrowAddress |-> deriveEscrowPDA(tx)]),
                      {"escrow"}, deriveEscrowPDA(tx))

\* Math.round(num / den) for num >= 0, den > 0
RoundDiv(num, den) == (2 * num + den) \div (2 * den)

\* estimateRefund's sliding scale
EstimateRefundPercentage(q) ==
  IF q >= 80 THEN RoundDiv((100 - q) * 2, 10)
  ELSE IF q >= 50 THEN 20 + RoundDiv((80 - q) * 3, 10)
  ELSE 50 + (50 - q)

EstimateScores == {-1, 0, 30, 49, 50, 65, 79, 80, 95, 100, 101}

\* tools/quality.ts estimateRefund: the amount is converted, never checked
estimateRefund(amount, q) ==
  /\ BeginTool("estimateRefund", "none", [amount |-> amount, qualityScore |-> q])
  /\ IF q < 0 \/ q > 100
       THEN ToolReturns(Result(FALSE, "Quality score must be between 0 and 100", NoValue), {}, NoAddress)
       ELSE ToolReturns(Result(TRUE, "", [refundPercentage |-> EstimateRefundPercentage(q)]),
                        {}, NoAddress)

\* An API response as assessDataQuality looks at it: whether it is null, how
\* many of the expected fields it has, whether it has any key, the age of its
\* timestamp, whether it flags an error, whether it has a structured data field.
Response(isNull, present, keys, age, hasErrors, data) ==
  [isNull |-> isNull, present |-> present, keys |-> keys, age |-> age,
   hasErrors |-> hasErrors, data |-> data]

ApiResponses ==
  {Response(FALSE, 2, TRUE, "hour", FALSE, TRUE),
   Response(FALSE, 1, TRUE, "none", FALSE, TRUE),
   Response(FALSE, 0, TRUE, "hour", FALSE, TRUE),
   Response(FALSE, 0, TRUE, "older", TRUE, FALSE),
   Response(TRUE, 0, FALSE, "none", FALSE, FALSE)}

completenessScore(response, criteria) ==
  IF criteria > 0 THEN RoundDiv(response.present * 100, criteria)
  ELSE IF response.keys THEN 100 ELSE 0

freshnessScore(response) ==
  CASE response.age = "hour" -> 100
    [] response.age = "day" -> 80
    [] response.age = "week" -> 50
    [] response.age = "older" -> 20
    [] OTHER -> 60

schemaComplianceScore(response) ==
  IF response.hasErrors THEN 0
  ELSE IF response.data THEN 100
  ELSE IF response.keys THEN 80
  ELSE 0

\* Math.round(completeness * 0.5 + schema * 0.3 + freshness * 0.2)
qualityScoreOf(response, criteria) ==
  RoundDiv(5 * completenessScore(response, criteria)
           + 3 * schemaComplianceScore(response)
           + 2 * freshnessScore(response), 10)

\* assessDataQuality's refund scale
AssessRefundPercentage(q) ==
  IF q >= 80 THEN 0
  ELSE IF q >= 50 THEN RoundDiv((80 - q) * 25, 30)
  ELSE IF q >= 30 THEN 25 + RoundDiv((50 - q) * 25, 20)
  ELSE 50 + RoundDiv((30 - q) * 50, 30)

\* what assessDataQuality returns; reading a property of undefined or of null
\* throws a TypeError, which its catch block turns into a failure
AssessDataQualityResult(response, criteria) ==
  IF criteria < 0
    THEN Result(FALSE, "Cannot read properties of undefined", NoValue)
  ELSE IF response.isNull
    THEN Result(FALSE, "Cannot convert undefined or null to object", NoValue)
  ELSE Result(TRUE, "",
              [qualityScore |-> qualityScoreOf(response, criteria),
               refundPercentage |-> AssessRefundPercentage(qualityScoreOf(response, criteria))])

\* tools/quality.ts assessDataQuality
assessDataQuality(response, criteria) ==
  /\ BeginTool("assessDataQuality", "none", [criteria |-> criteria])
  /\ ToolReturns(AssessDataQualityResult(response, criteria), {}, NoAddress)

\* getApiReputation's recommendation from the account's statistics
Recommendation(stats) ==
  IF stats.totalTransactions > 0
     /\ stats.disputesLost * 100 > 30 * stats.totalTransactions THEN "avoid"
  ELSE IF stats.totalTransactions < 5 THEN "caution"
  ELSE IF stats.reputationScore >= 750 /\ stats.averageQualityReceived >= 80 THEN "trusted"
  ELSE IF stats.reputationScore >= 500 /\ stats.averageQualityReceived >= 60 THEN "caution"
  ELSE "avoid"

\* what getApiReputation returns, and the accounts it read on the way
GetApiReputationResult(api, netExists, netFetch, message) ==
  IF api # Provider
    THEN [result |-> Result(FALSE, "Invalid public key input", NoValue), reads |-> {}]
  ELSE IF ~reputationExists(api, netExists)
    THEN [result |-> Result(TRUE, "", [recommendation |-> "caution", reputationScore |-> 500]),
          reads |-> {"reputation"}]
  ELSE IF netFetch = "down"
    THEN [result |-> Result(FALSE, ErrorMessage(message, "Failed to fetch API reputation"),
                            NoValue),
          reads |-> {"reputation"}]
  ELSE [result |-> Result(TRUE, "",
                          [recommendation |-> Recommendation(reputations[api].stats),
                           reputationScore |-> reputations[api].stats.reputationScore]),
        reads |-> {"reputation"}]

\* tools/reputation.ts getApiReputation
getApiReputation(api, netExists, netFetch, message) ==
  /\ BeginTool("getApiReputation", "none", [apiProvider |-> api])
  /\ ToolReturns(GetApiReputationResult(api, netExists, netFetch, message).result,
                 GetApiReputationResult(api, netExists, netFetch, message).reads, NoAddress)

\* index.ts CallTool handler, default case of the switch
callTool_unknown(name) ==
  /\ BeginTool("unknown", "none", [name |-> name])
  /\ ToolReturns(Result(FALSE, "Unknown tool", NoValue), {}, NoAddress)

\* ------------------------------------------------ callApiWithEscrow
\* params of callApiWithEscrow; autoDispute is "true", "false" or "undefined",
\* qualityThreshold -1 stands for undefined, criteria -1 for an undefined
\* expectedCriteria. qualityScore is the assessed score the
\* call carries once it has one.
CallApiArgs(api, amount, timeLock, autoDispute, qualityThreshold, criteria) ==
  [apiProvider |-> api, amount |-> amount, timeLock |-> timeLock,
   autoDispute |-> autoDispute, qualityThreshold |-> qualityThreshold,
   criteria |-> criteria, qualityScore |-> -1]

CallApiInputs ==
  {CallApiArgs(Provider, Sol(1000, 0), NoTimeLock, "undefined", -1, 2),
   CallApiArgs(Provider, Sol(1000, 0), TimeLock(3600), "true", 60, -1),
   CallApiArgs(Provider, Sol(1000, 0), NoTimeLock, "true", 0, 2),
   CallApiArgs(Provider, Sol(1000, 0), NoTimeLock, "false", -1, 2),
   CallApiArgs(Provider, Sol(0, 0), NoTimeLock, "undefined", -1, 2),
   CallApiArgs(Provider, Sol(1000, 0), TimeLock(3599), "undefined", -1, 2),
   CallApiArgs("not-a-key", Sol(1000, 0), NoTimeLock, "undefined", -1, 2)}

\* what callApiWithEscrow returns; `cause` is the error of the step that failed,
\* which the returned message quotes after its own text
CallApiResult(success, error, cause, finalStatus, disputeFiled, qualityScore) ==
  Result(success, error,
         [cause |-> cause, finalStatus |-> finalStatus,
          disputeFiled |-> disputeFiled, qualityScore |-> qualityScore])

\* params.autoDispute !== false
AutoDispute(args) == args.autoDispute # "false"
\* params.qualityThreshold || 50: undefined and 0 are both falsy
QualityThreshold(args) ==
  IF args.qualityThreshold \in {-1, 0} THEN 50 ELSE args.qualityThreshold
\* params.expectedCriteria || []
ExpectedCriteria(args) == IF args.criteria < 0 THEN 0 ELSE args.criteria

\* a step of callApiWithEscrow that returns without a ledger request of its own
CallApiEnds(result) ==
  /\ pc' = "idle"
  /\ ret' = result
  /\ UNCHANGED <<escrows, reputations, now>>
  /\ UNCHANGED <<browser, service>>

\* callApiWithEscrow, step 1: await getApiReputation
callApiWithEscrow_getApiReputation(args, netExists, netFetch, message) ==
  /\ BeginTool("callApiWithEscrow", "none", args)
  /\ LET rep == GetApiReputationResult(args.apiProvider, netExists, netFetch, message) IN
     IF rep.result.success /\ rep.result.value.recommendation = "avoid"
       THEN ToolReturns(CallApiResult(FALSE, "API provider has poor reputation", "",
                                      "failed", FALSE, -1), rep.reads, NoAddress)
       ELSE /\ pc' = "cae_createEscrow"
            /\ ret' = Pending
            /\ pre' = [NoPre EXCEPT !.reads = rep.reads]
            /\ submitted' = {}
            /\ applied' = {}
            /\ UNCHANGED <<escrows, reputations, now>>
            /\ UNCHANGED <<browser, service>>

\* callApiWithEscrow, step 2: await createEscrow
callApiWithEscrow_createEscrow ==
  /\ pc = "cae_createEscrow"
  /\ IF CreateEscrowValidation(call.args.apiProvider, call.args.amount, call.args.timeLock)
          # "ok"
       THEN /\ CallApiEnds(CallApiResult(FALSE, "Failed to create escrow",
                             CreateEscrowValidation(call.args.apiProvider, call.args.amount,
                                                    call.args.timeLock),
                             "failed", FALSE, -1))
            /\ UNCHANGED <<call, submitted, applied, pre>>
       ELSE \E tx \in TxIds, net \in NetOutcomes :
            /\ Rpc(initializeEscrowIx(tx, EffectiveTimeLock(call.args.timeLock)), net,
                   submitted, applied)
            /\ call' = [call EXCEPT !.tx = tx]
            /\ IF RpcError(initializeEscrowIx(tx, EffectiveTimeLock(call.args.timeLock)), net)
                    = "ok"
                 THEN pc' = "cae_fetch" /\ ret' = ret
                 ELSE /\ pc' = "idle"
                      /\ ret' = CallApiResult(FALSE, "Failed to create escrow",
                                  RpcError(initializeEscrowIx(
                                             tx, EffectiveTimeLock(call.args.timeLock)), net),
                                  "failed", FALSE, -1)
            /\ pre' = [pre EXCEPT !.address = deriveEscrowPDA(tx)]
            /\ UNCHANGED now

\* callApiWithEscrow, steps 3 to 5 up to the decision to dispute: the API
\* request, assessDataQuality, the threshold test
callApiWithEscrow_fetch(apiUp, response) ==
  /\ pc = "cae_fetch"
  /\ submitted' = submitted \cup {"apiRequest"}
  /\ UNCHANGED <<applied, pre>>
  /\ LET quality == AssessDataQualityResult(response, ExpectedCriteria(call.args)) IN
     IF ~apiUp
       THEN /\ CallApiEnds(CallApiResult(FALSE, "API call failed", "fetch failed",
                                         "failed", FALSE, -1))
            /\ UNCHANGED call
     ELSE IF ~quality.success
       THEN /\ CallApiEnds(CallApiResult(FALSE, "Quality assessment failed", quality.error,
                                         "failed", FALSE, -1))
            /\ UNCHANGED call
     ELSE IF AutoDispute(call.args)
             /\ quality.value.qualityScore < QualityThreshold(call.args)
       THEN /\ pc' = "cae_fileDispute"
            /\ ret' = ret
            /\ call' = [call EXCEPT !.args.qualityScore = quality.value.qualityScore]
            /\ UNCHANGED <<escrows, reputations, now>>
            /\ UNCHANGED <<browser, service>>
     ELSE /\ CallApiEnds(CallApiResult(TRUE, "", "", "completed", FALSE,
                                       quality.value.qualityScore))
          /\ call' = [call EXCEPT !.args.qualityScore = quality.value.qualityScore]

\* callApiWithEscrow when its fileDispute did not succeed: disputeFiled stays
\* false and the call returns success with finalStatus 'completed'
DisputeNotFiled == CallApiResult(TRUE, "", "", "completed", FALSE, call.args.qualityScore)

\* callApiWithEscrow, fileDispute up to its status check
callApiWithEscrow_fileDispute_check(netExists, netFetch) ==
  /\ pc = "cae_fileDispute"
  /\ pre' = [pre EXCEPT !.reads = @ \cup {"escrow"},
                        !.address = deriveEscrowPDA(call.tx),
                        !.status = IF escrowExists(call.tx, netExists)
                                      /\ ~FetchEscrowThrows(call.tx, netFetch)
                                     THEN escrows[call.tx].status ELSE "None",
                        !.open = now < escrows[call.tx].expiresAt]
  /\ UNCHANGED <<call, submitted, applied>>
  /\ IF ~escrowExists(call.tx, netExists)
        \/ FetchEscrowThrows(call.tx, netFetch)
        \/ FileDisputeStatusRejects(escrows[call.tx].status)
       THEN CallApiEnds(DisputeNotFiled)
       ELSE /\ pc' = "cae_reputationExists"
            /\ ret' = ret
            /\ UNCHANGED <<escrows, reputations, now>>
            /\ UNCHANGED <<browser, service>>

\* callApiWithEscrow, fileDispute: await program.reputationExists(agent)
callApiWithEscrow_fileDispute_reputationExists(net) ==
  /\ pc = "cae_reputationExists"
  /\ pc' = IF reputationExists(Agent, net) THEN "cae_markDisputed" ELSE "cae_initReputation"
  /\ pre' = [pre EXCEPT !.reputation = Seen(reputations[Agent].exists, net),
                        !.reads = @ \cup {"reputation"}]
  /\ UNCHANGED <<escrows, reputations, now, call, ret, submitted, applied>>
  /\ UNCHANGED <<browser, service>>

\* callApiWithEscrow, fileDispute: await program.initReputation()
callApiWithEscrow_fileDispute_initReputation(net) ==
  /\ pc = "cae_initReputation"
  /\ Rpc(initReputationIx(Agent), net, submitted, applied)
  /\ IF RpcError(initReputationIx(Agent), net) = "ok"
       THEN pc' = "cae_markDisputed" /\ ret' = ret
       ELSE pc' = "idle" /\ ret' = DisputeNotFiled
  /\ UNCHANGED <<now, call, pre>>

\* callApiWithEscrow, fileDispute: await program.markDisputed, then the result
callApiWithEscrow_fileDispute_markDisputed(net) ==
  /\ pc = "cae_markDisputed"
  /\ Rpc(markDisputedIx(call.tx), net, submitted, applied)
  /\ pc' = "idle"
  /\ ret' = IF RpcError(markDisputedIx(call.tx), net) = "ok"
              THEN CallApiResult(TRUE, "", "", "disputed", TRUE, call.args.qualityScore)
              ELSE DisputeNotFiled
  /\ UNCHANGED <<now, call, pre>>

\* ------------------------------------------------------------ environment
\* The ledger clock advances by one time-lock period.
Tick ==
  /\ now < MaxTicks * DefaultTimeLock
  /\ now' = now + DefaultTimeLock
  /\ UNCHANGED <<escrows, reputations, pc, call, ret, submitted, applied, pre>>
  /\ UNCHANGED <<browser, service>>

\* Another party submits an instruction of its own.
OtherSubmits(ix) ==
  /\ IxError(ix) = "ok"
  /\ Execute(ix)
  /\ UNCHANGED <<now, pc, call, ret, submitted, applied, pre>>
  /\ UNCHANGED <<browser, service>>

\* a concurrent creator opens the escrow for the same transaction id
OtherInitializeEscrow(tx, timeLock) ==
  OtherSubmits([Ix("initializeEscrow", Other, tx, "none", -1, -1)
                  EXCEPT !.timeLock = timeLock])

\* a concurrent creator initializes an entity's reputation account
OtherInitReputation(e) ==
  OtherSubmits(Ix("initReputation", Other, "none", e, -1, -1))

\* the payee releases an escrow whose time lock has expired
ProviderReleaseFunds(tx) ==
  OtherSubmits(Ix("releaseFunds", Provider, tx, "none", -1, -1))

\* statistics the ledger program can have accumulated for an entity
StatsValues == {Stats(10, 800, 90, 0), Stats(10, 400, 50, 1), Stats(10, 800, 90, 4)}

\* The ledger program updates the statistics of a reputation account as the
\* entity's escrows settle.
LedgerUpdatesStats(e, stats) ==
  /\ reputations[e].exists
  /\ reputations[e].stats # stats
  /\ reputations' = [reputations EXCEPT ![e].stats = stats]
  /\ UNCHANGED <<escrows, now, pc, call, ret, submitted, applied, pre>>
  /\ UNCHANGED <<browser, service>>

\* ------------------------------------------- consensus and refund (client)
RECURSIVE InsertAsc(_, _)
InsertAsc(x, s) ==
  IF s = <<>> THEN <<x>>
  ELSE IF x <= Head(s) THEN <<x>> \o s
  ELSE <<Head(s)>> \o InsertAsc(x, Tail(s))

\* scores.sort((a, b) => a - b)
RECURSIVE SortAsc(_)
SortAsc(s) == IF s = <<>> THEN <<>> ELSE InsertAsc(Head(s), SortAsc(Tail(s)))

MedianOf_LowerMiddle(sorted) == sorted[(Len(sorted) + 1) \div 2]

\* scores[Math.floor(scores.length / 2)] of the sorted scores (0-based index)
MedianOf(sorted) == sorted[(Len(sorted) \div 2) + 1]

calculateRefund_Inclusive(qualityScore) ==
  IF qualityScore <= 50 THEN 100
  ELSE IF qualityScore <= 65 THEN 75
  ELSE IF qualityScore <= 80 THEN 35
  ELSE 0

\* SyntheticOracleService.calculateRefund: the refund tiers
calculateRefund(qualityScore) ==
  IF qualityScore < 50 THEN 100
  ELSE IF qualityScore < 65 THEN 75
  ELSE IF qualityScore < 80 THEN 35
  ELSE 0

\* the tiers as generateMultiOracleAssessment writes them out itself
AssessmentRefund(consensusScore) ==
  IF consensusScore < 50 THEN 100
  ELSE IF consensusScore < 65 THEN 75
  ELSE IF consensusScore < 80 THEN 35
  ELSE 0

\* ------------------------------------------------- oracle registry (ledger)
\* defaults of initializeOracleRegistry
MinConsensus == 3
MaxDeviation == 15

\* --------------------------------------------- OracleTransactionSystem
\* number of oracle identities in ORACLES
NumOracles == 5
\* baseScore of generateMultiOracleAssessment
BaseScore == 70
\* time lock createEscrow encodes, seconds
BrowserTimeLock == 86400

\* the message an oracle signs for a score: "<transactionId>:<score>"
ScoreMessage(tx, score) == <<tx, ":", score>>

\* nacl.sign.detached(messageBytes, secretKey) of oracle i
Sign(i, message) == [signer |-> i, message |-> message]

\* Ed25519 verification of a signature against a public key and a message
Verifies(signature, publicKey, message) ==
  signature.signer = publicKey /\ signature.message = message

Clamp(x) == IF x < 0 THEN 0 ELSE IF x > 100 THEN 100 ELSE x

\* one oracle's submission: its key, its score, the signed message
Submission(tx, i, score) ==
  [oracle |-> i,
   quality_score |-> score,
   signature |-> Sign(i, ScoreMessage(tx, score)),
   message |-> ScoreMessage(tx, score)]

ScoresOf(submissions) ==
  [i \in 1..Len(submissions) |-> submissions[i].quality_score]

\* an assessment object over given submissions: the consensus score is the
\* median, the refund follows the tiers
AssessmentOf(submissions) ==
  [submissions |-> submissions,
   consensusScore |-> IF submissions = <<>> THEN -1
                      ELSE MedianOf(SortAsc(ScoresOf(submissions))),
   refundPercentage |-> IF submissions = <<>> THEN 0
                        ELSE AssessmentRefund(MedianOf(SortAsc(ScoresOf(submissions)))),
   scores |-> SortAsc(ScoresOf(submissions))]

\* generateMultiOracleAssessment: variation[i] is oracle i's random variation
generateMultiOracleAssessment(tx, variation) ==
  AssessmentOf([i \in 1..NumOracles |->
                  Submission(tx, i, Clamp(BaseScore + variation[i]))])

\* The whole percentages p in 0..100 for which (p / 100) * 100, evaluated in
\* IEEE-754 double arithmetic, comes out above p. (deviation / median) * 100
\* for integer scores equals its exact value or differs from it in the last
\* place, so against a whole maxDeviation the comparison differs from the
\* exact one only when deviation / median is exactly maxDeviation per cent and
\* maxDeviation is one of these.
RoundsAbove == {7, 14, 28, 55, 56}

\* deviationPercent <= maxDeviation for sorted scores, maxDeviation in 0..100;
\* with a median of 0 the quotient is Infinity or NaN and the comparison false
consensusReached(sorted, maxDeviation) ==
  IF MedianOf(sorted) = 0 THEN FALSE
  ELSE \/ (sorted[Len(sorted)] - sorted[1]) * 100 < maxDeviation * MedianOf(sorted)
       \/ /\ (sorted[Len(sorted)] - sorted[1]) * 100 = maxDeviation * MedianOf(sorted)
          /\ maxDeviation \notin RoundsAbove

\* consensusReached of calculateConsensus, negated; without scores the median
\* is undefined, the quotient NaN and the comparison false
DeviationExceeds(sorted, maxDeviation) ==
  IF sorted = <<>> THEN TRUE ELSE ~consensusReached(sorted, maxDeviation)

sortedScores_Unsorted(scores) == scores

\* assessments.map(a => a.score).sort((a, b) => a - b)
sortedScores(scores) == SortAsc(scores)

\* deviationPercent.toFixed(1): the digits of a finite percentage are left
\* out; "Infinity" and "NaN" are what the division by a median of 0 gives
deviationPercentOf(deviation, median) ==
  IF median # 0 THEN "finite" ELSE IF deviation = 0 THEN "NaN" ELSE "Infinity"

\* what calculateConsensus returns for a non-empty list of scores
ConsensusOf(scores, maxDeviation) ==
  [scores |-> sortedScores(scores),
   median |-> MedianOf(sortedScores(scores)),
   min |-> sortedScores(scores)[1],
   max |-> sortedScores(scores)[Len(scores)],
   deviation |-> sortedScores(scores)[Len(scores)] - sortedScores(scores)[1],
   deviationPercent |->
     deviationPercentOf(sortedScores(scores)[Len(scores)] - sortedScores(scores)[1],
                        MedianOf(sortedScores(scores))),
   consensusReached |-> consensusReached(sortedScores(scores), maxDeviation),
   refundPercentage |-> calculateRefund(MedianOf(sortedScores(scores)))]

\* SyntheticOracleService.calculateConsensus(assessments, maxDeviation)
calculateConsensus ==
  /\ ~consensus.done
  /\ consensus' = [done |-> TRUE, by |-> "calculateConsensus",
                   result |-> ConsensusOf(assessed.scores, assessed.maxDeviation)]
  /\ UNCHANGED <<assessed, wire>>
  /\ UNCHANGED <<ledger, tool, browser>>

createEd25519Instructions_SkipsLast(submissions) ==
  [i \in 1..(Len(submissions) - 1) |->
     [Ix("ed25519", "none", "none", "none", -1, -1) EXCEPT
        !.data = [num_signatures |-> 1,
                  signature |-> submissions[i].signature,
                  publicKey |-> submissions[i].oracle,
                  message |-> submissions[i].message]]]

\* createEd25519Instructions: one verification instruction per submission
createEd25519Instructions(submissions) ==
  [i \in 1..Len(submissions) |->
     [Ix("ed25519", "none", "none", "none", -1, -1) EXCEPT
        !.data = [num_signatures |-> 1,
                  signature |-> submissions[i].signature,
                  publicKey |-> submissions[i].oracle,
                  message |-> submissions[i].message]]]


\* The instruction data of resolve_dispute_multi_oracle: the vector length
\* (writeUInt32LE; a length below 2^31 is written as it is) and then one record
\* per submission. writeUInt8 takes a score in 0..255 and throws a RangeError
\* on any other.
WriteUInt8Throws(submissions) ==
  \E i \in 1..Len(submissions) :
    submissions[i].quality_score < 0 \/ submissions[i].quality_score > 255

ResolveRecords(submissions) ==
  [i \in 1..Len(submissions) |->
     [oracle |-> submissions[i].oracle,
      quality_score |-> submissions[i].quality_score,
      signature |-> submissions[i].signature]]

resolveDisputeMultiOracleIx(tx, submissions) ==
  [Ix("resolveDisputeMultiOracle", "none", tx, "none", -1, -1) EXCEPT
     !.data = [count |-> Len(submissions),
               records |-> ResolveRecords(submissions)]]

\* what resolveDisputeMultiOracle returns: the verification instructions and
\* then the resolve instruction, to be compiled into a v0 transaction
ResolveTransaction(tx, submissions) ==
  [kind |-> "resolveDisputeMultiOracle", isV0 |-> TRUE,
   instructions |-> createEd25519Instructions(submissions)
                      \o <<resolveDisputeMultiOracleIx(tx, submissions)>>]

LegacyTransaction(ix) == [kind |-> ix.kind, isV0 |-> FALSE, instructions |-> <<ix>>]

\* the program instruction of a built transaction (the last one)
ProgramIx(t) == t.instructions[Len(t.instructions)]
Ed25519Ixs(t) == SubSeq(t.instructions, 1, Len(t.instructions) - 1)

\* An operation of the browser client ends.
BrowserEnds(outcome, error, timedOut) ==
  /\ bpc' = "idle"
  /\ bret' = [done |-> TRUE, outcome |-> outcome, error |-> error, timedOut |-> timedOut]

BrowserBegins(op, tx, seen, n) ==
  /\ bpc = "idle"
  /\ bcall' = [op |-> op, tx |-> tx, seen |-> seen, numOracles |-> n]
  /\ simulated' = NoTransaction
  /\ signedTx' = NoTransaction
  /\ broadcast' = FALSE
  /\ UNCHANGED <<escrows, reputations, now>>
  /\ UNCHANGED <<tool, service>>

\* a builder hands its transaction to sendAndConfirm
BrowserBuilt(t) ==
  /\ btx' = t
  /\ bpc' = "built"
  /\ bret' = NoOutcome

CreateEscrowSkips_Never(tx) == FALSE

\* createEscrow's existence check: TRUE when it skips creation
CreateEscrowSkips(tx) == escrows[tx].status # "None"

\* OracleTransactionSystem.createEscrow(wallet, amount, transactionId, api)
OTS_createEscrow(tx, net) ==
  /\ BrowserBegins("createEscrow", tx, Seen(escrows[tx].status # "None", net), 0)
  /\ IF net = "down"
       THEN btx' = NoTransaction /\ BrowserEnds("thrown", "NetworkError", FALSE)
     ELSE IF CreateEscrowSkips(tx)
       THEN btx' = NoTransaction /\ BrowserEnds("null", "", FALSE)
     ELSE BrowserBuilt(LegacyTransaction(initializeEscrowIx(tx, BrowserTimeLock)))

\* OracleTransactionSystem.markDisputed(wallet, transactionId)
OTS_markDisputed(tx) ==
  /\ BrowserBegins("markDisputed", tx, "none", 0)
  /\ BrowserBuilt(LegacyTransaction(markDisputedIx(tx)))

\* ensureReputationAccount's existence check: TRUE when the account is reported
ReputationAccountInfo(e, net) == net # "down" /\ reputations[e].exists

\* OracleTransactionSystem.ensureReputationAccount(entity, payer)
OTS_ensureReputationAccount(e, net) ==
  /\ BrowserBegins("ensureReputationAccount", "none", Seen(reputations[e].exists, net), 0)
  /\ IF ReputationAccountInfo(e, net)
       THEN btx' = NoTransaction /\ BrowserEnds("pda", "", FALSE)
       ELSE BrowserBuilt(LegacyTransaction(initReputationIx(e)))

\* OracleTransactionSystem.resolveDisputeMultiOracle(transactionId, assessment)
OTS_resolveDisputeMultiOracle(tx, submissions, net) ==
  /\ BrowserBegins("resolveDisputeMultiOracle", tx,
                   Seen(escrows[tx].status # "None", net), Len(submissions))
  /\ IF net = "down"
       THEN btx' = NoTransaction /\ BrowserEnds("thrown", "NetworkError", FALSE)
     ELSE IF escrows[tx].status = "None"
       THEN btx' = NoTransaction
            /\ BrowserEnds("thrown", "Escrow account not found", FALSE)
     ELSE IF WriteUInt8Throws(submissions)
       THEN btx' = NoTransaction /\ BrowserEnds("thrown", "RangeError", FALSE)
     ELSE BrowserBuilt(ResolveTransaction(tx, submissions))

\* ------------------------------------------------ ledger: transactions
\* the Ed25519 program checks every verification instruction of a transaction
Ed25519Fails(t) ==
  \E i \in 1..Len(Ed25519Ixs(t)) :
    ~Verifies(Ed25519Ixs(t)[i].data.signature, Ed25519Ixs(t)[i].data.publicKey,
              Ed25519Ixs(t)[i].data.message)

\* a submission record is backed by a verification instruction of the same
\* transaction over its oracle, its signature and "<transaction id>:<score>"
RecordVerified(t, rec) ==
  \E i \in 1..Len(Ed25519Ixs(t)) :
    /\ Ed25519Ixs(t)[i].data.publicKey = rec.oracle
    /\ Ed25519Ixs(t)[i].data.signature = rec.signature
    /\ Ed25519Ixs(t)[i].data.message = ScoreMessage(ProgramIx(t).tx, rec.quality_score)

\* guard of resolve_dispute_multi_oracle
ResolveDisputeMultiOracleGuard(t) ==
  IF escrows[ProgramIx(t).tx].status = "None"
     \/ ~reputations[escrows[ProgramIx(t).tx].agent].exists
     \/ ~reputations[ApiOf(ProgramIx(t).tx)].exists
    THEN "AccountNotInitialized"
  ELSE IF escrows[ProgramIx(t).tx].status # "Disputed" THEN "EscrowNotDisputed"
  ELSE IF ProgramIx(t).data.count # Len(ProgramIx(t).data.records)
    THEN "InvalidInstruction"
  ELSE IF ProgramIx(t).data.count < MinConsensus THEN "InsufficientOracleConsensus"
  ELSE IF \E i \in 1..Len(ProgramIx(t).data.records) :
            ~RecordVerified(t, ProgramIx(t).data.records[i])
    THEN "InvalidSignature"
  ELSE IF DeviationExceeds(SortAsc(ScoresOf(ProgramIx(t).data.records)), MaxDeviation)
    THEN "NoConsensus"
  ELSE "ok"

\* the error a transaction ends with, "ok" when the ledger accepts it
TxError(t) ==
  IF Ed25519Fails(t) THEN "Ed25519VerifyFailed"
  ELSE IF ProgramIx(t).kind = "resolveDisputeMultiOracle"
    THEN ResolveDisputeMultiOracleGuard(t)
  ELSE IxError(ProgramIx(t))

\* The ledger executes a transaction: all of its effect or none.
ExecuteTx(t) ==
  IF TxError(t) # "ok" THEN UNCHANGED <<escrows, reputations>>
  ELSE IF ProgramIx(t).kind = "resolveDisputeMultiOracle"
    THEN /\ escrows' =
              [escrows EXCEPT
                 ![ProgramIx(t).tx].status = "Resolved",
                 ![ProgramIx(t).tx].qualityScore =
                    MedianOf(SortAsc(ScoresOf(ProgramIx(t).data.records))),
                 ![ProgramIx(t).tx].refundPercentage =
                    calculateRefund(MedianOf(SortAsc(ScoresOf(ProgramIx(t).data.records))))]
         /\ UNCHANGED reputations
  ELSE /\ escrows' = ApplyEscrows(ProgramIx(t))
       /\ reputations' = ApplyReputations(ProgramIx(t))

\* ------------------------------------------------------- sendAndConfirm
sendAndConfirm_simulate_IgnoresError(net) ==
  /\ bpc = "built"
  /\ IF net = "down"
       THEN BrowserEnds("thrown", "NetworkError", FALSE) /\ simulated' = simulated
     ELSE /\ bpc' = "simulated"
          /\ bret' = bret
          /\ simulated' = IF TxError(btx) # "ok" THEN simulated ELSE btx
  /\ UNCHANGED <<escrows, reputations, now, bcall, btx, signedTx, broadcast>>
  /\ UNCHANGED <<tool, service>>

\* sendAndConfirm up to the end of the pre-flight simulation: latest blockhash,
\* v0 or legacy message, simulateTransaction; a simulation error is thrown.
sendAndConfirm_simulate(net) ==
  /\ bpc = "built"
  /\ IF net = "down"
       THEN BrowserEnds("thrown", "NetworkError", FALSE) /\ simulated' = simulated
     ELSE IF TxError(btx) # "ok"
       THEN BrowserEnds("thrown", TxError(btx), FALSE) /\ simulated' = simulated
     ELSE bpc' = "simulated" /\ bret' = bret /\ simulated' = btx
  /\ UNCHANGED <<escrows, reputations, now, bcall, btx, signedTx, broadcast>>
  /\ UNCHANGED <<tool, service>>

\* how the wallet is driven: window.solana.signAndSendTransaction when the
\* wallet has it, else signTransaction and connection.sendRawTransaction
WalletPaths == {"signAndSendTransaction", "signTransaction"}

\* sendAndConfirm: the wallet is asked to sign; the user approves or rejects;
\* the signed transaction is sent (sendRawTransaction runs the node's own
\* pre-flight and throws on its error).
sendAndConfirm_sign(path, approve, net) ==
  /\ bpc = "simulated"
  /\ IF ~approve
       THEN /\ BrowserEnds("thrown", "UserRejected", FALSE)
            /\ UNCHANGED <<signedTx, broadcast>>
     ELSE /\ signedTx' = btx
          /\ IF path = "signTransaction" /\ net = "down"
               THEN BrowserEnds("thrown", "NetworkError", FALSE) /\ broadcast' = FALSE
             ELSE IF path = "signTransaction" /\ TxError(btx) # "ok"
               THEN BrowserEnds("thrown", TxError(btx), FALSE) /\ broadcast' = FALSE
             ELSE bpc' = "sent" /\ bret' = bret /\ broadcast' = TRUE
  /\ UNCHANGED <<escrows, reputations, now, bcall, btx, simulated>>
  /\ UNCHANGED <<tool, service>>

\* what becomes of a broadcast transaction: it is processed and its status is
\* observed, or its blockhash expires before it is confirmed
Fates == {"confirmed", "expired"}

\* sendAndConfirm: confirmTransaction, then the signature is returned, or the
\* confirmation's error or the expiry is thrown.
sendAndConfirm_confirm(fate) ==
  /\ bpc = "sent"
  /\ IF fate = "confirmed"
       THEN /\ ExecuteTx(btx)
            /\ IF TxError(btx) = "ok"
                 THEN BrowserEnds("signature", "", FALSE)
                 ELSE BrowserEnds("thrown", TxError(btx), FALSE)
       ELSE /\ UNCHANGED <<escrows, reputations>>
            /\ BrowserEnds("thrown", "TransactionExpiredBlockheightExceeded", TRUE)
  /\ UNCHANGED <<now, bcall, btx, simulated, signedTx, broadcast>>
  /\ UNCHANGED <<tool, service>>

\* ------------------------------------------- assessments handed to resolve
\* random variations of the five oracles, each in -5..4
Variations == {<<-5, -2, 0, 2, 4>>, <<0, 0, 0, 0, 0>>, <<4, -5, 4, -5, -5>>}

\* score lists of assessments a caller assembles itself
SuppliedScores == {<<>>, <<70, 72>>, <<40, 70, 90>>, <<70, 72, 75>>, <<70, 256, 75>>}

Assessments(tx) ==
  {generateMultiOracleAssessment(tx, v) : v \in Variations}
  \cup {AssessmentOf([i \in 1..Len(sc) |-> Submission(tx, i, sc[i])]) : sc \in SuppliedScores}

\* ------------------------------------- consensus over given score lists
\* generateMultiOracleAssessment from its sort on, over the submissions that
\* oracles 1..N signed for the given scores
generateMultiOracleAssessment_consensus ==
  /\ ~consensus.done
  /\ consensus' =
       [done |-> TRUE, by |-> "generateMultiOracleAssessment",
        result |-> AssessmentOf([i \in 1..Len(assessed.scores) |->
                                  Submission("tx-1", i, assessed.scores[i])])]
  /\ UNCHANGED <<assessed, wire>>
  /\ UNCHANGED <<ledger, tool, browser>>

\* scores the enumerated lists are made of
ScoreValues == {0, 49, 50, 64, 65, 93, 100}

RECURSIVE ListsUpTo(_)
ListsUpTo(n) ==
  IF n = 0 THEN {<<>>}
  ELSE ListsUpTo(n - 1)
       \cup {Append(l, v) : l \in {m \in ListsUpTo(n - 1) : Len(m) = n - 1},
                            v \in ScoreValues}

\* the score lists handed to the service: every single score of 0..100, the
\* lists over ScoreValues, and lists of five oracles
ScoreLists ==
  {<<v>> : v \in 0..100}
  \cup (ListsUpTo(MaxScores) \ {<<>>})
  \cup {<<70, 72, 75, 78, 80>>, <<80, 70, 78, 72, 75>>, <<65, 68, 70, 72, 74>>,
        <<74, 65, 72, 68, 70>>, <<0, 0, 0, 5, 9>>}

\* ------------------------------------------------------- bytes on the wire
\* A string is the sequence of its code points and a buffer the sequence of
\* its bytes. Code points are below 2^16, one UTF-16 unit each, and no
\* surrogates; the integers handed to the writers are below 2^31.

\* TextEncoder.encode(s) and Buffer.from(s, 'utf-8'): the UTF-8 bytes of s
RECURSIVE Utf8Bytes(_)
Utf8Bytes(s) ==
  IF s = <<>> THEN <<>>
  ELSE (IF Head(s) < 128 THEN <<Head(s)>>
        ELSE IF Head(s) < 2048
          THEN <<192 + (Head(s) \div 64), 128 + (Head(s) % 64)>>
        ELSE <<224 + (Head(s) \div 4096), 128 + ((Head(s) \div 64) % 64),
               128 + (Head(s) % 64)>>)
       \o Utf8Bytes(Tail(s))

\* writeUInt32LE, writeBigUInt64LE and writeBigInt64LE of n in 0..2^31-1: the
\* bytes of n, lowest first; the bytes from the fifth on are 0
LittleEndian(n, width) ==
  [k \in 1..width |-> IF k <= 4 THEN (n \div (256 ^ (k - 1))) % 256 ELSE 0]

\* `${n}` of an integer n: its decimal digits, "-" first when n is negative
RECURSIVE NumberToString(_)
NumberToString(n) ==
  IF n < 0 THEN <<45>> \o NumberToString(0 - n)
  ELSE IF n < 10 THEN <<48 + n>>
  ELSE NumberToString(n \div 10) \o <<48 + (n % 10)>>

\* typedArray.set(bytes, offset) on a buffer the bytes fit in
SetAt(buf, bytes, offset) ==
  [k \in 1..Len(buf) |->
     IF k > offset /\ k <= offset + Len(bytes) THEN bytes[k - offset] ELSE buf[k]]

\* The 32 bytes of oracle i's public key and the 64 bytes nacl.sign.detached
\* returns for a message under oracle i's secret key. tweetnacl is not part of
\* the repository: the bytes stand for its output, which is a function of the
\* key (derived from the seed (i - 1) * 50 + j + 100) and of the message.
PublicKeyBytes(i) == [j \in 1..32 |-> ((i - 1) * 50 + j + 99) % 256]

nacl_sign_detached(messageBytes, i) ==
  [j \in 1..64 |->
     (PublicKeyBytes(i)[((j - 1) % 32) + 1] + (7 * j) + Len(messageBytes)
        + (IF messageBytes = <<>> THEN 0 ELSE messageBytes[Len(messageBytes)])) % 256]

createEscrowData_LengthU64(amountLamports, timeLock, transactionId) ==
  <<243, 160, 77, 153, 11, 92, 48, 209>>
    \o LittleEndian(amountLamports, 8)
    \o LittleEndian(timeLock, 8)
    \o LittleEndian(Len(Utf8Bytes(transactionId)), 8)
    \o Utf8Bytes(transactionId)

\* createEscrow's instruction data: what it writes into dataLayout up to
\* offset, which is what dataLayout.slice(0, offset) keeps of the 1000 bytes
createEscrowData(amountLamports, timeLock, transactionId) ==
  <<243, 160, 77, 153, 11, 92, 48, 209>>
    \o LittleEndian(amountLamports, 8)
    \o LittleEndian(timeLock, 8)
    \o LittleEndian(Len(Utf8Bytes(transactionId)), 4)
    \o Utf8Bytes(transactionId)

\* nothing encoded yet for a transaction id and an amount; the amount is in
\* lamports, Math.floor(amount * LAMPORTS_PER_SOL) of the amount handed in
WireOf(transactionId, amountLamports) ==
  [tx |-> transactionId,
   amount |-> amountLamports,
   escrow |-> [done |-> FALSE, thrown |-> "", data |-> <<>>],
   signed |-> [done |-> FALSE, oracle |-> 0, score |-> 0, message |-> <<>>,
               signature |-> <<>>],
   submissions |-> <<>>,
   resolve |-> [done |-> FALSE, thrown |-> "", ed25519 |-> <<>>, data |-> <<>>]]

\* OracleTransactionSystem.createEscrow from the derivation of the escrow
\* address to the instruction data, for an escrow that does not exist yet:
\* findProgramAddressSync throws on a seed of more than 32 bytes and
\* writeBigUInt64LE on a negative amount
createEscrow_data ==
  /\ ~wire.escrow.done
  /\ wire' = [wire EXCEPT !.escrow =
       IF Len(Utf8Bytes(wire.tx)) > 32
         THEN [done |-> TRUE, thrown |-> "Max seed length exceeded", data |-> <<>>]
       ELSE IF wire.amount < 0
         THEN [done |-> TRUE, thrown |-> "RangeError", data |-> <<>>]
       ELSE [done |-> TRUE, thrown |-> "",
             data |-> createEscrowData(wire.amount, BrowserTimeLock, wire.tx)]]
  /\ UNCHANGED <<assessed, consensus>>
  /\ UNCHANGED <<ledger, tool, browser>>

ScoreMessageText_ScoreFirst(transactionId, score) ==
  NumberToString(score) \o <<58>> \o transactionId

\* `${transactionId}:${score}`, the message an oracle signs, as text
ScoreMessageText(transactionId, score) ==
  transactionId \o <<58>> \o NumberToString(score)

\* SyntheticOracleService.signScore(transactionId, score, secretKey) with the
\* secret key of oracle i
signScore(score, i) ==
  /\ ~wire.signed.done
  /\ wire' = [wire EXCEPT !.signed =
       [done |-> TRUE, oracle |-> i, score |-> score,
        message |-> ScoreMessageText(wire.tx, score),
        signature |->
          nacl_sign_detached(Utf8Bytes(ScoreMessageText(wire.tx, score)), i)]]
  /\ UNCHANGED <<assessed, consensus>>
  /\ UNCHANGED <<ledger, tool, browser>>

\* generateMultiOracleAssessment's loop: every oracle signs its own score
generateMultiOracleAssessment_sign(variation) ==
  /\ wire.submissions = <<>>
  /\ wire' = [wire EXCEPT !.submissions =
       [i \in 1..NumOracles |->
          [oracle |-> i,
           quality_score |-> Clamp(BaseScore + variation[i]),
           signature |->
             nacl_sign_detached(
               Utf8Bytes(ScoreMessageText(wire.tx, Clamp(BaseScore + variation[i]))), i),
           message |-> ScoreMessageText(wire.tx, Clamp(BaseScore + variation[i]))]]]
  /\ UNCHANGED <<assessed, consensus>>
  /\ UNCHANGED <<ledger, tool, browser>>

Ed25519InstructionData_MessageFirst(submission) ==
  SetAt(SetAt(SetAt(
    <<1, 0, 16, 0, 255, 255, 80, 0, 255, 255, 112, 0,
      Len(Utf8Bytes(submission.message)) % 256,
      (Len(Utf8Bytes(submission.message)) \div 256) % 256, 255, 255>>
      \o [k \in 1..(96 + Len(Utf8Bytes(submission.message))) |-> 0],
    Utf8Bytes(submission.message), 16),
    submission.signature, 16 + Len(Utf8Bytes(submission.message))),
    PublicKeyBytes(submission.oracle), 80 + Len(Utf8Bytes(submission.message)))

\* the data of the verification instruction createEd25519Instructions builds
\* for one submission: a buffer of messageOffset + |message| bytes, the header
\* written byte by byte, then signature, public key and message set at
\* sigOffset = 16, pubkeyOffset = 16 + 64 and messageOffset = 80 + 32
Ed25519InstructionData(submission) ==
  SetAt(SetAt(SetAt(
    <<1, 0,
      16 % 256, (16 \div 256) % 256, 255, 255,
      (16 + 64) % 256, ((16 + 64) \div 256) % 256, 255, 255,
      (16 + 64 + 32) % 256, ((16 + 64 + 32) \div 256) % 256,
      Len(Utf8Bytes(submission.message)) % 256,
      (Len(Utf8Bytes(submission.message)) \div 256) % 256, 255, 255>>
      \o [k \in 1..(16 + 64 + 32 + Len(Utf8Bytes(submission.message)) - 16) |-> 0],
    submission.signature, 16),
    PublicKeyBytes(submission.oracle), 16 + 64),
    Utf8Bytes(submission.message), 16 + 64 + 32)

\* resolveData: the discriminator, the number of submissions (u32
\* little-endian) and per submission the oracle's key (32 bytes), its score
\* (writeUInt8; the scores are in 0..100) and its signature (64 bytes)
RECURSIVE ResolveRecordBytes(_)
ResolveRecordBytes(submissions) ==
  IF submissions = <<>> THEN <<>>
  ELSE PublicKeyBytes(Head(submissions).oracle)
         \o <<Head(submissions).quality_score>>
         \o Head(submissions).signature
         \o ResolveRecordBytes(Tail(submissions))

ResolveData(submissions) ==
  <<30, 194, 15, 52, 59, 167, 234, 143>>
    \o LittleEndian(Len(submissions), 4)
    \o ResolveRecordBytes(submissions)

\* OracleTransactionSystem.resolveDisputeMultiOracle for an escrow that exists
\* and the submissions of an assessment: the escrow address is derived first
\* (findProgramAddressSync throws on a seed of more than 32 bytes), then the
\* instruction data and the verification instructions are built
resolveDisputeMultiOracle_data ==
  /\ wire.submissions # <<>>
  /\ ~wire.resolve.done
  /\ wire' = [wire EXCEPT !.resolve =
       IF Len(Utf8Bytes(wire.tx)) > 32
         THEN [done |-> TRUE, thrown |-> "Max seed length exceeded",
               ed25519 |-> <<>>, data |-> <<>>]
       ELSE
       [done |-> TRUE, thrown |-> "",
        ed25519 |-> [k \in 1..Len(wire.submissions) |->
                       Ed25519InstructionData(wire.submissions[k])],
        data |-> ResolveData(wire.submissions)]]
  /\ UNCHANGED <<assessed, consensus>>
  /\ UNCHANGED <<ledger, tool, browser>>

\* ----------------------------------------------------------- specification
InitClients ==
  /\ escrows = [t \in TxIds |-> NoEscrow]
  /\ reputations = [e \in {Agent, Provider, Other} |-> NoReputation]
  /\ now = 0
  /\ pc = "idle"
  /\ call = [op |-> "none", tx |-> "none", entity |-> "none"]
  /\ ret = Pending
  /\ submitted = {}
  /\ applied = {}
  /\ pre = NoPre
  /\ bpc = "idle"
  /\ bcall = [op |-> "none", tx |-> "none", seen |-> "none", numOracles |-> 0]
  /\ btx = NoTransaction
  /\ bret = NoOutcome
  /\ simulated = NoTransaction
  /\ signedTx = NoTransaction
  /\ broadcast = FALSE

Init ==
  /\ InitClients
  /\ assessed = [scores |-> <<>>, maxDeviation |-> 0]
  /\ consensus = NoConsensus
  /\ wire = WireOf(<<>>, 0)

\* the service about to be handed one list of scores and a threshold
InitService ==
  /\ InitClients
  /\ assessed \in [scores : ScoreLists, maxDeviation : {MaxDeviation, 7}]
  /\ consensus = NoConsensus
  /\ wire = WireOf(<<>>, 0)

\* the encoders about to be handed one transaction id and one amount: the ids
\* "demo-tx-001", "", "t:5", U+00E9 U+20AC (two characters, five bytes) and
\* 33 times "a"; the amounts, in lamports, of 0.001 SOL, 0.00414 SOL
\* (4139999.99... floored), 0 SOL, 2.147483647 SOL and a negative amount
InitEncoding ==
  /\ InitClients
  /\ assessed = [scores |-> <<>>, maxDeviation |-> 0]
  /\ consensus = NoConsensus
  /\ wire \in {WireOf(t, a) :
                 t \in {<<100, 101, 109, 111, 45, 116, 120, 45, 48, 48, 49>>, <<>>,
                        <<116, 58, 53>>, <<233, 8364>>, [k \in 1..33 |-> 97]},
                 a \in {1000000, 4139999, 0, 2147483647, -1000000}}

Next ==
  \/ \E api \in ApiInputs, amount \in AmountInputs, timeLock \in TimeLockInputs :
       createEscrow(api, amount, timeLock)
  \/ \E tx \in TxIds, netFetch \in {"ok", "down"}, net \in NetOutcomes :
       releaseFunds(tx, netFetch, net)
  \/ \E tx \in TxIds, in \in ResolveInputs, netFetch \in {"ok", "down"}, net \in NetOutcomes :
       resolveDispute(tx, in.q, in.r, netFetch, net)
  \/ \E tx \in TxIdInputs, q \in ScoreInputs, r \in PercentInputs :
       fileDispute_check(tx, q, r)
  \/ \E net \in {"ok", "down"} : fileDispute_reputationExists(net)
  \/ \E net \in NetOutcomes : fileDispute_initReputation(net)
  \/ \E net \in NetOutcomes : fileDispute_markDisputed(net)
  \/ \E e \in {Agent, Provider}, net \in {"ok", "down"} : initializeReputation_check(e, net)
  \/ \E net \in NetOutcomes : initializeReputation_init(net)
  \/ Tick
  \/ \E tx \in TxIds : OtherInitializeEscrow(tx, DefaultTimeLock)
  \/ \E e \in {Agent, Provider} : OtherInitReputation(e)
  \/ \E tx \in TxIds : ProviderReleaseFunds(tx)

Spec == Init /\ [][Next]_vars

\* the browser client and the other parties on the same ledger
NextBrowser ==
  \/ \E tx \in TxIds, net \in {"ok", "down"} : OTS_createEscrow(tx, net)
  \/ \E tx \in TxIds : OTS_markDisputed(tx)
  \/ \E e \in {Agent, Provider}, net \in {"ok", "down"} : OTS_ensureReputationAccount(e, net)
  \/ \E tx \in TxIds, net \in {"ok", "down"} :
       \E a \in Assessments(tx) : OTS_resolveDisputeMultiOracle(tx, a.submissions, net)
  \/ \E net \in {"ok", "down"} : sendAndConfirm_simulate(net)
  \/ \E path \in WalletPaths, approve \in BOOLEAN, net \in {"ok", "down"} :
       sendAndConfirm_sign(path, approve, net)
  \/ \E fate \in Fates : sendAndConfirm_confirm(fate)
  \/ \E tx \in TxIds : OtherInitializeEscrow(tx, BrowserTimeLock)
  \/ \E e \in {Agent, Provider} : OtherInitReputation(e)

SpecBrowser == Init /\ [][NextBrowser]_vars

\* the MCP server: every tool of the CallTool handler, the agent's release and
\* resolve, and the other parties on the same ledger
NextTools ==
  \/ \E in \in CreateEscrowInputs : createEscrow(in.api, in.amount, in.timeLock)
  \/ \E address \in AddressInputs, tx \in TxIdInputs, read \in ReadOutcomes :
       checkEscrowStatus(address, tx, read.net, read.message)
  \/ \E tx \in TxIds, netExists \in {"ok", "down"}, read \in ReadOutcomes :
       verifyPayment(tx, netExists, read.net, read.message)
  \/ \E response \in ApiResponses, criteria \in {-1, 0, 2} :
       assessDataQuality(response, criteria)
  \/ \E amount \in {NoAmount, Sol(1000, 0)}, q \in EstimateScores : estimateRefund(amount, q)
  \/ \E tx \in TxIdInputs, q \in ScoreInputs, r \in PercentInputs :
       fileDispute_check(tx, q, r)
  \/ \E net \in {"ok", "down"} : fileDispute_reputationExists(net)
  \/ \E net \in NetOutcomes : fileDispute_initReputation(net)
  \/ \E net \in NetOutcomes : fileDispute_markDisputed(net)
  \/ \E api \in ApiInputs, netExists \in {"ok", "down"}, read \in ReadOutcomes :
       getApiReputation(api, netExists, read.net, read.message)
  \/ \E args \in CallApiInputs, netExists \in {"ok", "down"}, read \in ReadOutcomes :
       callApiWithEscrow_getApiReputation(args, netExists, read.net, read.message)
  \/ callApiWithEscrow_createEscrow
  \/ \E apiUp \in BOOLEAN, response \in ApiResponses : callApiWithEscrow_fetch(apiUp, response)
  \/ \E netExists \in {"ok", "down"}, netFetch \in {"ok", "down"} :
       callApiWithEscrow_fileDispute_check(netExists, netFetch)
  \/ \E net \in {"ok", "down"} : callApiWithEscrow_fileDispute_reputationExists(net)
  \/ \E net \in NetOutcomes : callApiWithEscrow_fileDispute_initReputation(net)
  \/ \E net \in NetOutcomes : callApiWithEscrow_fileDispute_markDisputed(net)
  \/ \E name \in {"release_funds", ""} : callTool_unknown(name)
  \/ \E tx \in TxIds : releaseFunds(tx, "ok", "ok")
  \/ \E tx \in TxIds, in \in ResolveInputs : resolveDispute(tx, in.q, in.r, "ok", "ok")
  \/ OtherInitReputation(Provider)
  \/ \E stats \in StatsValues : LedgerUpdatesStats(Provider, stats)

SpecTools == Init /\ [][NextTools]_vars

\* the consensus and refund computations over given scores
NextService ==
  \/ calculateConsensus
  \/ generateMultiOracleAssessment_consensus

SpecService == InitService /\ [][NextService]_vars

\* the byte encoders applied to one transaction id and one amount
NextEncoding ==
  \/ createEscrow_data
  \/ \E score \in {0, 7, 85, 100}, i \in {1, NumOracles} : signScore(score, i)
  \/ \E variation \in Variations : generateMultiOracleAssessment_sign(variation)
  \/ resolveDisputeMultiOracle_data

SpecEncoding == InitEncoding /\ [][NextEncoding]_vars

\* ------------------------------------------------------------------ claims
AllowedTransitions ==
  {<<"None", "Active">>, <<"Active", "Disputed">>,
   <<"Disputed", "Resolved">>, <<"Active", "Released">>}

\* C1: whatever the clients and the other parties submit, an escrow's status
\* changes only by creation, Active->Disputed, Disputed->Resolved or
\* Active->Released; a Resolved or Released escrow keeps its status and no
\* escrow returns to Active.
C1_StatusTransitions ==
  [][\A t \in TxIds :
       escrows'[t].status # escrows[t].status
         => <<escrows[t].status, escrows'[t].status>> \in AllowedTransitions]_vars

\* C1 witness: releaseFunds was submitted for a Resolved escrow and was refused.
C1_Witness ==
  /\ call.op = "releaseFunds"
  /\ ret.done
  /\ "releaseFunds" \in submitted
  /\ ret.error = "EscrowNotActive"
  /\ escrows[call.tx].status = "Resolved"

\* C2 as claimed: fileDispute succeeds only on an Active escrow whose dispute
\* window is open; on any other escrow it fails with a reason and hands no
\* mark-disputed transaction to the ledger.
C2_FileDisputeRejectsLocally ==
  (call.op = "fileDispute" /\ ret.done) =>
    /\ ret.success => (pre.status = "Active" /\ pre.open)
    /\ ~(pre.status = "Active" /\ pre.open) =>
         /\ ~ret.success
         /\ ret.error # ""
         /\ "markDisputed" \notin submitted
         /\ "markDisputed" \notin applied

\* scores a built resolve instruction carries
ResolveScores(t) == ScoresOf(ProgramIx(t).data.records)

\* C3 as claimed: no resolve-with-multi-oracle-consensus instruction is built,
\* nor handed to the wallet, over oracle scores whose spread exceeds 15 per
\* cent of their median.
C3_NoResolveBeyondDeviation ==
  \A t \in {btx, signedTx} :
    (t.kind = "resolveDisputeMultiOracle" /\ Len(ResolveScores(t)) > 0)
      => ~DeviationExceeds(SortAsc(ResolveScores(t)), MaxDeviation)

\* C4 as claimed: no resolve-with-multi-oracle-consensus instruction is built,
\* nor handed to the wallet, with fewer than minConsensus (3) submissions.
C4_NoResolveBelowMinConsensus ==
  \A t \in {btx, signedTx} :
    t.kind = "resolveDisputeMultiOracle" => ProgramIx(t).data.count >= MinConsensus

\* C5: createEscrow invoked for a transaction id whose escrow account the
\* ledger already holds ends with null, builds no initialize-escrow
\* transaction, signs and broadcasts nothing, and the account stays.
C5_SecondCreateIsNoOp ==
  (bcall.op = "createEscrow" /\ bcall.seen = "found") =>
    /\ bret.done
    /\ bret.outcome = "null"
    /\ btx = NoTransaction
    /\ signedTx = NoTransaction
    /\ ~broadcast
    /\ escrows[bcall.tx].status # "None"

\* C5 witness: the browser client created the escrow, confirmed it, and its
\* second createEscrow for the same id returned null.
C5_Witness ==
  /\ bcall.op = "createEscrow"
  /\ bcall.seen = "found"
  /\ bret.outcome = "null"
  /\ escrows[bcall.tx].agent = Agent
  /\ escrows[bcall.tx].status = "Active"

\* C6 as claimed: when the existence check saw no account and the client's own
\* create is then refused because a concurrent creator made the account, the
\* operation does not end in that refusal (fileDispute, initializeReputation;
\* createEscrow and ensureReputationAccount through sendAndConfirm).
C6_RaceReportedAsSuccess ==
  /\ (call.op \in {"fileDispute", "initializeReputation"}
        /\ ret.done /\ pre.reputation = "absent" /\ "initReputation" \in submitted)
       => ~(~ret.success /\ ret.error = "AccountInUse")
  /\ (bcall.op \in {"createEscrow", "ensureReputationAccount"}
        /\ bret.done /\ bcall.seen = "absent")
       => ~(bret.outcome = "thrown" /\ bret.error = "AccountInUse")

\* C7: a built resolve transaction carries as many verification instructions
\* as the assessment has submissions, and the count field of its resolve
\* instruction equals the number of records that follow it.
C7_CountsAgree ==
  btx.kind = "resolveDisputeMultiOracle" =>
    /\ Len(Ed25519Ixs(btx)) = bcall.numOracles
    /\ ProgramIx(btx).data.count = Len(ProgramIx(btx).data.records)
    /\ ProgramIx(btx).data.count = bcall.numOracles

\* C7 witness: the scores 65, 68, 70, 72, 74 give five verification
\* instructions and a count field of 5.
C7_Witness ==
  /\ btx.kind = "resolveDisputeMultiOracle"
  /\ ResolveScores(btx) = <<65, 68, 70, 72, 74>>
  /\ Len(Ed25519Ixs(btx)) = 5
  /\ ProgramIx(btx).data.count = 5

\* C8 as claimed: no resolve instruction is built with a count field of 0 and
\* no records.
C8_NoEmptySubmissionVector ==
  btx.kind = "resolveDisputeMultiOracle" =>
    (ProgramIx(btx).data.count # 0 /\ ProgramIx(btx).data.records # <<>>)

\* C9: the transaction handed to the wallet is the transaction whose
\* simulation returned without error, nothing is broadcast that was not
\* signed, and a sendAndConfirm that ended without a passed simulation threw
\* with nothing signed or broadcast.
C9_SignedOnlyAfterSimulation ==
  /\ signedTx # NoTransaction => simulated = signedTx
  /\ broadcast => signedTx # NoTransaction
  /\ (btx # NoTransaction /\ bret.done /\ simulated = NoTransaction) =>
       (bret.outcome = "thrown" /\ signedTx = NoTransaction /\ ~broadcast)

\* C9 witness: a simulated transaction was signed, broadcast and confirmed.
C9_Witness ==
  /\ signedTx # NoTransaction
  /\ simulated = signedTx
  /\ broadcast
  /\ bret.outcome = "signature"

\* C10 as claimed: a transaction that was broadcast and whose confirmation did
\* not arrive within the validity window is not reported the way a failure is
\* (success=false from a tool, a thrown error from sendAndConfirm).
C10_TimeoutIsNotFailure ==
  /\ (ret.done /\ ret.error = "ConfirmationTimeout") => ret.success
  /\ bret.timedOut => bret.outcome # "thrown"

\* the tools the CallTool handler dispatches to, and its default case
McpTools ==
  {"createEscrow", "checkEscrowStatus", "verifyPayment", "assessDataQuality",
   "estimateRefund", "fileDispute", "getApiReputation", "callApiWithEscrow", "unknown"}

\* C11: once a call of an MCP tool (or of an unknown tool) is over, it has
\* returned a result that carries a boolean success flag and, when the flag is
\* false, a non-empty error message; a thrown error never ends a call without
\* such a result.
C11_StructuredResult ==
  (call.op \in McpTools /\ pc = "idle") =>
    /\ ret.done
    /\ ret.success \in BOOLEAN
    /\ ~ret.success => ret.error # ""

\* C11 witness: verifyPayment's account fetch threw an error without a message
\* and the call returned the failure with the fallback message.
C11_Witness ==
  /\ call.op = "verifyPayment"
  /\ call.args.fetch = "down"
  /\ ret.done
  /\ ~ret.success
  /\ ret.error = "Failed to verify payment"

\* inputs the claim calls invalid
InvalidAmount(amount) ==
  \/ ~amount.given
  \/ amount.units < 0
  \/ (amount.units = 0 /\ amount.halves = 0)
  \/ amount.units < MIN_ESCROW_AMOUNT
  \/ amount.units > MAX_ESCROW_AMOUNT
  \/ (amount.units = MAX_ESCROW_AMOUNT /\ amount.halves > 0)

InvalidTimeLock(timeLock) ==
  timeLock.given /\ (timeLock.seconds < MIN_TIME_LOCK \/ timeLock.seconds > MAX_TIME_LOCK)

InvalidPercent(x) == x < 0 \/ x > 100

\* the call returned a failure and had neither read nor submitted anything
RejectedLocally ==
  /\ ret.done
  /\ ~ret.success
  /\ pre.reads = {}
  /\ submitted = {}
  /\ applied = {}

\* C12 as claimed: createEscrow, fileDispute and estimateRefund given an
\* invalid input (amount missing, <= 0, below 0.001 SOL or above 1000 SOL; a
\* supplied time lock outside [3600, 2592000]; a malformed provider address; a
\* quality score or refund percentage outside [0, 100]) return success=false,
\* and the call reads and writes nothing on the ledger.
C12_InvalidInputRejectedLocally ==
  [][/\ \A in \in CreateEscrowInputs :
          ((InvalidAmount(in.amount) \/ InvalidTimeLock(in.timeLock) \/ in.api # Provider)
             /\ createEscrow(in.api, in.amount, in.timeLock))
            => RejectedLocally'
     /\ \A tx \in TxIdInputs, q \in ScoreInputs, r \in PercentInputs :
          ((InvalidPercent(q) \/ InvalidPercent(r)) /\ fileDispute_check(tx, q, r))
            => RejectedLocally'
     /\ \A amount \in {NoAmount, Sol(1000, 0)}, q \in EstimateScores :
          (InvalidPercent(q) /\ estimateRefund(amount, q)) => RejectedLocally']_vars

\* C13 as claimed: a callApiWithEscrow whose amount or time lock is invalid
\* makes no network call at any point up to its return, neither a reputation
\* read, nor an escrow creation, nor the API request, and returns a failure.
C13_RejectedBeforeNetworkCall ==
  (call.op = "callApiWithEscrow"
     /\ (InvalidAmount(call.args.amount) \/ InvalidTimeLock(call.args.timeLock))) =>
    /\ pre.reads = {}
    /\ submitted = {}
    /\ applied = {}
    /\ pc = "idle" => (ret.done /\ ~ret.success)

ByCalculateConsensus == consensus.done /\ consensus.by = "calculateConsensus"
ByAssessment == consensus.done /\ consensus.by = "generateMultiOracleAssessment"

\* C14 as claimed: for a non-empty score list with a positive median,
\* calculateConsensus reports consensusReached = true exactly when
\* (max - min) * 100 <= threshold * median.
C14_ReachedExactlyWithinThreshold ==
  (ByCalculateConsensus /\ consensus.result.median > 0) =>
    (consensus.result.consensusReached
       <=> (consensus.result.max - consensus.result.min) * 100
             <= assessed.maxDeviation * consensus.result.median)

\* how many of the scores satisfy a test
CountOf(scores, Test(_)) == Cardinality({i \in 1..Len(scores) : Test(scores[i])})

\* m is the element at index floor(N/2) (0-based) of the scores in ascending
\* order: at most floor(N/2) scores lie below it and at least floor(N/2) + 1
\* are not above it
IsUpperMedian(m, scores) ==
  /\ \E i \in 1..Len(scores) : scores[i] = m
  /\ CountOf(scores, LAMBDA x : x < m) <= Len(scores) \div 2
  /\ CountOf(scores, LAMBDA x : x <= m) >= (Len(scores) \div 2) + 1

\* C15: the consensus score of N scores is the element at index floor(N/2) of
\* the ascending list, the upper-middle one for even N, both as the median of
\* calculateConsensus and as the consensusScore of
\* generateMultiOracleAssessment.
C15_MedianIsUpperMiddle ==
  /\ ByCalculateConsensus => IsUpperMedian(consensus.result.median, assessed.scores)
  /\ ByAssessment => IsUpperMedian(consensus.result.consensusScore, assessed.scores)

\* C15 witness: an even number of scores, 49 and 64 handed over as 64, 49,
\* whose consensus score is the upper one.
C15_Witness ==
  /\ ByAssessment
  /\ assessed.scores = <<64, 49>>
  /\ consensus.result.consensusScore = 64

\* C16 as claimed: for a score list whose median is 0, calculateConsensus
\* reports no consensus and carries no deviation percentage that was computed
\* by dividing by the zero median.
C16_NoDivisionByZeroMedian ==
  (ByCalculateConsensus /\ consensus.result.median = 0) =>
    /\ ~consensus.result.consensusReached
    /\ consensus.result.deviationPercent \notin {"Infinity", "NaN"}

\* the orders a list of scores can be handed over in
Reorderings(scores) ==
  {[i \in 1..Len(scores) |-> scores[f[i]]] : f \in Permutations(1..Len(scores))}

\* C17: calculateConsensus returns the same result, field by field, for every
\* order in which the same scores are handed to it.
C17_OrderIndependent ==
  ByCalculateConsensus =>
    \A other \in Reorderings(assessed.scores) :
      ConsensusOf(other, assessed.maxDeviation) = consensus.result

\* C17 witness: the scores 80, 70, 78, 72, 75 handed over out of order give
\* the sorted list, median 75, deviation 10 and consensus.
C17_Witness ==
  /\ ByCalculateConsensus
  /\ assessed.scores = <<80, 70, 78, 72, 75>>
  /\ consensus.result.scores = <<70, 72, 75, 78, 80>>
  /\ consensus.result.median = 75
  /\ consensus.result.deviation = 10
  /\ consensus.result.consensusReached

\* the refund bands of the specification
RefundBand(s) ==
  CASE s \in 0..49 -> 100
    [] s \in 50..64 -> 75
    [] s \in 65..79 -> 35
    [] s \in 80..100 -> 0

\* C18: for every score 0..100 that comes out as the consensus score, the
\* refund percentage is 100 below 50, 75 from 50 to 64, 35 from 65 to 79 and 0
\* from 80 on, in calculateRefund (through calculateConsensus) and in the tiers
\* of generateMultiOracleAssessment alike.
C18_RefundBands ==
  /\ (ByCalculateConsensus /\ consensus.result.median \in 0..100) =>
       consensus.result.refundPercentage = RefundBand(consensus.result.median)
  /\ (ByAssessment /\ consensus.result.consensusScore \in 0..100) =>
       consensus.result.refundPercentage = RefundBand(consensus.result.consensusScore)

\* C18 witness: calculateRefund at the band edge 80 gives 0.
C18_Witness ==
  /\ ByCalculateConsensus
  /\ assessed.scores = <<80>>
  /\ consensus.result.refundPercentage = 0

\* C19 as claimed: for every quality score in 0..100 the refund percentage
\* that estimateRefund returns is the one the refund tiers (calculateRefund)
\* assign to that score.
C19_EstimateAgreesWithTiers ==
  (call.op = "estimateRefund" /\ ret.done /\ call.args.qualityScore \in 0..100) =>
    /\ ret.success
    /\ ret.value.refundPercentage = calculateRefund(call.args.qualityScore)

FileDisputeSucceeded == call.op = "fileDispute" /\ pc = "idle" /\ ret.done /\ ret.success

RequestedThreshold(args) == IF args.qualityThreshold = -1 THEN 50 ELSE args.qualityThreshold

\* callApiWithEscrow has called fileDispute for the escrow it created
DisputeStarted ==
  \/ pc \in {"cae_fileDispute", "cae_reputationExists", "cae_initReputation",
             "cae_markDisputed"}
  \/ "escrow" \in pre.reads

\* C22 as claimed: a callApiWithEscrow that assessed the response goes on to
\* file a dispute exactly when autoDispute is not false and the quality score
\* is strictly below the caller's qualityThreshold (50 when none is given),
\* and in no other run hands a mark-disputed transaction to the ledger.
C22_DisputesIffBelowThreshold ==
  (call.op = "callApiWithEscrow" /\ call.args.qualityScore >= 0) =>
    /\ DisputeStarted <=>
         /\ call.args.autoDispute # "false"
         /\ call.args.qualityScore < RequestedThreshold(call.args)
    /\ "markDisputed" \in submitted =>
         /\ call.args.autoDispute # "false"
         /\ call.args.qualityScore < RequestedThreshold(call.args)

\* the escrow address of a transaction id: the program address found for the
\* seeds 'escrow' and the id under the server's program id
EscrowAddressOf(tx) ==
  [kind |-> "pda", programId |-> ProgramId, seed |-> "escrow", tx |-> tx]

\* the call derived the escrow address from its transaction id
DerivedFromId(c, p) ==
  /\ p.address.kind = "pda"
  /\ c.op = "checkEscrowStatus" => c.args.escrowAddress.kind = "none"

WireDemoTx == <<100, 101, 109, 111, 45, 116, 120, 45, 48, 48, 49>>

\* the integer a little-endian field holds
RECURSIVE FromLittleEndian(_)
FromLittleEndian(bytes) ==
  IF bytes = <<>> THEN 0 ELSE Head(bytes) + 256 * FromLittleEndian(Tail(bytes))

\* the string a run of UTF-8 bytes holds
RECURSIVE Utf8Decode(_)
Utf8Decode(bytes) ==
  IF bytes = <<>> THEN <<>>
  ELSE IF bytes[1] < 128 THEN <<bytes[1]>> \o Utf8Decode(Tail(bytes))
  ELSE IF bytes[1] < 224
    THEN <<(bytes[1] - 192) * 64 + (bytes[2] - 128)>>
           \o Utf8Decode(SubSeq(bytes, 3, Len(bytes)))
  ELSE <<(bytes[1] - 224) * 4096 + (bytes[2] - 128) * 64 + (bytes[3] - 128)>>
         \o Utf8Decode(SubSeq(bytes, 4, Len(bytes)))

\* a create-escrow payload read field by field
DecodeCreateEscrow(data) ==
  [discriminator |-> SubSeq(data, 1, 8),
   amount |-> FromLittleEndian(SubSeq(data, 9, 16)),
   timeLock |-> FromLittleEndian(SubSeq(data, 17, 24)),
   length |-> FromLittleEndian(SubSeq(data, 25, 28)),
   transactionId |-> Utf8Decode(SubSeq(data, 29, Len(data)))]

EscrowDataBuilt == wire.escrow.done /\ wire.escrow.thrown = ""

ResolveDataBuilt == wire.resolve.done /\ wire.resolve.thrown = ""

\* the number a run of decimal digits denotes
RECURSIVE ParseDecimal(_)
ParseDecimal(digits) ==
  IF digits = <<>> THEN 0
  ELSE 10 * ParseDecimal(SubSeq(digits, 1, Len(digits) - 1))
         + (digits[Len(digits)] - 48)

\* decimal digits without a sign, a leading zero or anything around them
CanonicalDecimal(digits) ==
  /\ digits # <<>>
  /\ \A k \in 1..Len(digits) : digits[k] \in 48..57
  /\ Len(digits) > 1 => digits[1] # 48

\* message is transactionId, ":" and the score in decimal, and nothing else
MessageIs(message, transactionId, score) ==
  /\ Len(message) > Len(transactionId) + 1
  /\ SubSeq(message, 1, Len(transactionId)) = transactionId
  /\ message[Len(transactionId) + 1] = 58
  /\ CanonicalDecimal(SubSeq(message, Len(transactionId) + 2, Len(message)))
  /\ ParseDecimal(SubSeq(message, Len(transactionId) + 2, Len(message))) = score

\* the text after the last ":" of a message
RECURSIVE AfterLastColon(_)
AfterLastColon(message) ==
  IF message = <<>> \/ message[Len(message)] = 58 THEN <<>>
  ELSE Append(AfterLastColon(SubSeq(message, 1, Len(message) - 1)),
              message[Len(message)])

\* C25: the message an oracle signs is "<transactionId>:<score>" with the
\* score in decimal; the verification instruction built for a submission
\* carries the bytes of that message, over which the submission's signature
\* was made; and the score byte of that oracle's record in the resolve
\* instruction is the score of the signed message.
C25_SignedMessageAndScoreAgree ==
  /\ wire.signed.done =>
       /\ MessageIs(wire.signed.message, wire.tx, wire.signed.score)
       /\ wire.signed.signature =
            nacl_sign_detached(Utf8Bytes(wire.signed.message), wire.signed.oracle)
  /\ \A k \in 1..Len(wire.submissions) :
       /\ MessageIs(wire.submissions[k].message, wire.tx,
                    wire.submissions[k].quality_score)
       /\ wire.submissions[k].signature =
            nacl_sign_detached(Utf8Bytes(wire.submissions[k].message), k)
  /\ ResolveDataBuilt =>
       \A k \in 1..Len(wire.submissions) :
         /\ SubSeq(wire.resolve.ed25519[k], 113, Len(wire.resolve.ed25519[k]))
              = Utf8Bytes(wire.submissions[k].message)
         /\ SubSeq(wire.resolve.ed25519[k], 17, 80)
              = nacl_sign_detached(
                  SubSeq(wire.resolve.ed25519[k], 113, Len(wire.resolve.ed25519[k])), k)
         /\ wire.resolve.data[12 + 97 * (k - 1) + 33]
              = ParseDecimal(AfterLastColon(Utf8Decode(
                  SubSeq(wire.resolve.ed25519[k], 113, Len(wire.resolve.ed25519[k])))))

\* C25 witness: the resolve instruction is built for "demo-tx-001" with a
\* first oracle that signed "demo-tx-001:65", and signScore has signed a
\* three-digit score
C25_Witness ==
  /\ ResolveDataBuilt
  /\ wire.tx = WireDemoTx
  /\ wire.submissions[1].message = WireDemoTx \o <<58, 54, 53>>
  /\ wire.resolve.data[45] = 65
  /\ wire.signed.done
  /\ wire.signed.message = WireDemoTx \o <<58, 49, 48, 48>>

\* C26: for every submission the verification payload is 112 bytes and the
\* message's bytes long; it starts with the signature count 1 and the padding
\* 0; the 64 bytes from offset 16 are the signature, the 32 bytes from offset
\* 80 the oracle's public key and the bytes from offset 112 to the end the
\* message, each region ending where the next begins; the offset fields hold
\* 16, 80 and 112, the size field the message's length, and the three
\* instruction-index fields 0xFFFF.
C26_Ed25519PayloadLayout ==
  ResolveDataBuilt =>
    /\ Len(wire.resolve.ed25519) = Len(wire.submissions)
    /\ \A k \in 1..Len(wire.submissions) :
         LET d == wire.resolve.ed25519[k]
             m == Utf8Bytes(wire.submissions[k].message)
         IN /\ Len(d) = 112 + Len(m)
            /\ d[1] = 1
            /\ d[2] = 0
            /\ Len(wire.submissions[k].signature) = 64
            /\ SubSeq(d, 17, 80) = wire.submissions[k].signature
            /\ SubSeq(d, 81, 112) = PublicKeyBytes(wire.submissions[k].oracle)
            /\ SubSeq(d, 113, Len(d)) = m
            /\ FromLittleEndian(SubSeq(d, 3, 4)) = 16
            /\ FromLittleEndian(SubSeq(d, 7, 8)) = 16 + 64
            /\ FromLittleEndian(SubSeq(d, 11, 12)) = 80 + 32
            /\ FromLittleEndian(SubSeq(d, 13, 14)) = Len(d) - 112
            /\ SubSeq(d, 5, 6) = <<255, 255>>
            /\ SubSeq(d, 9, 10) = <<255, 255>>
            /\ SubSeq(d, 15, 16) = <<255, 255>>

\* C26 witness: five payloads are built; the one of the fifth oracle for the
\* id of five bytes is 120 bytes long and carries ":74" at its end
C26_Witness ==
  /\ ResolveDataBuilt
  /\ Len(wire.resolve.ed25519) = 5
  /\ wire.tx = <<233, 8364>>
  /\ Len(wire.resolve.ed25519[5]) = 120
  /\ SubSeq(wire.resolve.ed25519[5], 118, 120) = <<58, 55, 52>>
  /\ wire.resolve.ed25519[5][13] = 8

\* the reputation accounts a resolve instruction for tx references: the one of
\* the escrow's agent and the one of its API
ReputationsInitialized(tx) ==
  /\ escrows[tx].status # "None"
  /\ reputations[escrows[tx].agent].exists
  /\ reputations[ApiOf(tx)].exists

\* C27: the browser client builds a resolve transaction, and its resolve
\* transaction is broadcast, only while the reputation accounts of the
\* escrow's agent and of its API are both initialized on the ledger.
C27_ResolveOnlyWithReputations ==
  [][/\ (bpc = "idle" /\ bpc' = "built" /\ btx'.kind = "resolveDisputeMultiOracle")
          => ReputationsInitialized(bcall'.tx)
     /\ (~broadcast /\ broadcast' /\ btx.kind = "resolveDisputeMultiOracle")
          => ReputationsInitialized(bcall.tx)]_vars

\* C28: fileDispute hands mark-disputed to the ledger only when the agent's
\* reputation account exists; after its existence check it goes on to
\* init-reputation when the account is absent, and it hands init-reputation
\* to the ledger only for an absent account; initializeReputation of an
\* entity whose account exists returns success at once and hands nothing to
\* the ledger.
C28_InitReputationOnlyWhenAbsent ==
  [][/\ (pc = "fd_markDisputed" /\ "markDisputed" \in submitted')
          => reputations[Agent].exists
     /\ (pc = "fd_reputationExists" /\ ~reputations[Agent].exists)
          => pc' = "fd_initReputation"
     /\ (pc = "fd_initReputation" /\ "initReputation" \in submitted')
          => ~reputations[Agent].exists
     /\ (pc = "idle" /\ call'.op = "initializeReputation"
           /\ reputations[call'.entity].exists)
          => (pc' = "idle" /\ ret'.done /\ ret'.success /\ submitted' = {})
     /\ (pc = "ir_initReputation" /\ "initReputation" \in submitted')
          => ~reputations[call.entity].exists]_vars

\* C29: whatever becomes of the account read, escrowExists answers whether the
\* escrow account exists: verifyPayment reports 'Escrow not found' exactly for
\* a transaction id without an escrow account on the ledger, and fileDispute
\* reports it only for such an id.
C29_NotFoundOnlyForMissingEscrow ==
  [][/\ (pc = "idle" /\ call'.op = "verifyPayment")
          => ((ret'.done /\ ret'.error = "Escrow not found")
                <=> escrows[call'.tx].status = "None")
     /\ (pc = "idle" /\ call'.op = "fileDispute" /\ call'.tx \in TxIds
           /\ ret'.done /\ ret'.error = "Escrow not found")
          => escrows[call'.tx].status = "None"]_vars

\* C30: when callApiWithEscrow returns success, the finalStatus it reports is
\* 'disputed' exactly if the escrow it created is Disputed on the ledger at
\* that moment, and 'completed' exactly if that escrow is still Active.
C30_FinalStatusAgreesWithLedger ==
  [][(call.op = "callApiWithEscrow" /\ pc # "idle" /\ pc' = "idle"
        /\ ret'.done /\ ret'.success) =>
       /\ ret'.value.finalStatus = "disputed"
            <=> escrows'[call'.tx].status = "Disputed"
       /\ ret'.value.finalStatus = "completed"
            <=> escrows'[call'.tx].status = "Active"]_vars
====
